---------------------------- MODULE Spec2Model ----------------------------
(***************************************************************************)
(* A model of the news-extraction pipeline:                                *)
(*   - stage 1, extract_news.py: scrape_with_diffbot,                      *)
(*     scrape_with_trafilatura, detect_pagination and the multi-page       *)
(*     retry/fallback loop scrape_all_pages            (specification Spec)*)
(*   - stage 2, parse_news.py: extract_info_with_ai, _extract_with_gemini, *)
(*     _extract_with_openai, _parse_ai_response, and the bounded-time      *)
(*     extract_info_with_ai of parse_self_content.py with the row writer   *)
(*     save_parsed_csv                          (specification SpecExtract)*)
(* Texts are sequences of one-character strings, so that len(), ==, and    *)
(* str.join are computed as Python computes them.                          *)
(***************************************************************************)
EXTENDS Integers, Sequences, FiniteSets, TLC

(***************************************************************************)
(* Program constants of extract_news.py                                    *)
(***************************************************************************)
MAX_PAGES == 5
MAX_RETRIES == 3
RETRY_DELAY == 5
DELAY_BETWEEN_PAGES == 8
\* the length a page body must exceed: len(content) > 100
MIN_CONTENT_LEN == 100

(***************************************************************************)
(* Bounds of the model                                                     *)
(***************************************************************************)
\* length of the long page body "x" * LongLen used as provider output
LongLen == 150

(***************************************************************************)
(* Texts                                                                   *)
(***************************************************************************)
Rep(c, n) == [k \in 1..n |-> c]

\* "\n\n---PAGE BREAK---\n\n"
PAGE_BREAK ==
  <<"\n", "\n", "-", "-", "-", "P", "A", "G", "E", " ", "B", "R", "E", "A", "K",
    "-", "-", "-", "\n", "\n">>

\* sep.join(parts), as str.join
RECURSIVE join(_, _)
join(sep, parts) ==
  IF parts = <<>> THEN <<>>
  ELSE IF Len(parts) = 1 THEN parts[1]
  ELSE parts[1] \o sep \o join(sep, Tail(parts))

BodyX == Rep("x", LongLen)
BodyY == Rep("y", MIN_CONTENT_LEN + 1)
BodyZ == Rep("z", MIN_CONTENT_LEN)
NoText == <<>>

(***************************************************************************)
(* The remote article API's answers, as requests.get delivers them.        *)
(* error_msg is the set of the substrings, among those the code tests for, *)
(* that the message contains.                                              *)
(***************************************************************************)
Articles ==
  { [title |-> "T", text |-> BodyX, date |-> "D1", author |-> "A1"],
    [title |-> "U", text |-> BodyY, date |-> "D2", author |-> "A2"],
    [title |-> "V", text |-> BodyZ, date |-> "D3", author |-> "A3"],
    [title |-> "W", text |-> NoText, date |-> "D4", author |-> "A4"] }

ErrorMsgs ==
  { {}, {"rate limit"}, {"forbidden"}, {"403"}, {"could not download"},
    {"rate limit", "forbidden"} }

Http(code, has_error, msg, objs) ==
  [kind |-> "http", status_code |-> code, has_error |-> has_error,
   error_msg |-> msg, objects |-> objs]

Raised(kind) ==
  [kind |-> kind, status_code |-> 0, has_error |-> FALSE,
   error_msg |-> {}, objects |-> <<>>]

DiffbotResponses ==
  { Http(200, FALSE, {}, <<a>>) : a \in Articles }
    \cup { Http(200, FALSE, {}, <<>>) }
    \cup { Http(200, TRUE, m, <<>>) : m \in ErrorMsgs }
    \cup { Http(c, FALSE, {}, <<>>) : c \in {429, 403, 500, 404} }
    \cup { Raised(k) : k \in {"Timeout", "ConnectionError", "Exception"} }

\* the result dictionaries of scrape_with_diffbot; error = "NONE" stands for
\* a dictionary without the key 'error'
NONE == "NONE"
ErrorResult(e) ==
  [error |-> e, title |-> "", content |-> NoText, date |-> "", author |-> "",
   method |-> "diffbot"]

\* one retry too few
ForbiddenResultEarly(retry_count) ==
  IF retry_count < MAX_RETRIES - 1 THEN ErrorResult("FORBIDDEN_RETRY")
  ELSE ErrorResult("FORBIDDEN")

\* the retryable sub-kind returned for the last retry count as well
ForbiddenResultLate(retry_count) ==
  IF retry_count <= MAX_RETRIES THEN ErrorResult("FORBIDDEN_RETRY")
  ELSE ErrorResult("FORBIDDEN")

\* lines 259-261 and 283-285
ForbiddenResult(retry_count) ==
  IF retry_count < MAX_RETRIES THEN ErrorResult("FORBIDDEN_RETRY")
  ELSE ErrorResult("FORBIDDEN")

scrape_with_diffbot(response, retry_count) ==
  CASE response.kind = "Timeout" -> ErrorResult("TIMEOUT")
    [] response.kind = "ConnectionError" -> ErrorResult("CONNECTION_ERROR")
    [] response.kind = "Exception" -> ErrorResult("EXCEPTION")
    [] OTHER ->
       IF response.status_code = 200 THEN
         IF response.has_error THEN
           IF "rate limit" \in response.error_msg \/ "429" \in response.error_msg
             THEN ErrorResult("RATE_LIMIT")
           ELSE IF "403" \in response.error_msg \/ "forbidden" \in response.error_msg
             THEN ForbiddenResult(retry_count)
           ELSE IF "could not download" \in response.error_msg
             THEN ErrorResult("DOWNLOAD_FAILED")
           ELSE ErrorResult("API_ERROR")
         ELSE IF response.objects # <<>> THEN
           [error |-> NONE,
            title |-> response.objects[1].title,
            content |-> response.objects[1].text,
            date |-> response.objects[1].date,
            author |-> response.objects[1].author,
            method |-> "diffbot"]
         ELSE ErrorResult("NO_CONTENT")
       ELSE IF response.status_code = 429 THEN ErrorResult("RATE_LIMIT")
       ELSE IF response.status_code = 403 THEN ForbiddenResult(retry_count)
       ELSE IF response.status_code = 500 THEN ErrorResult("SERVER_ERROR")
       ELSE ErrorResult("HTTP_ERROR")

(***************************************************************************)
(* The fallback library's answers: fetch_url gives nothing (or raises), or *)
(* a document from which extract recovers a text (possibly none) and       *)
(* bare_extraction the metadata.                                           *)
(***************************************************************************)
TrafResponses ==
  { [downloaded |-> FALSE, text |-> NoText, meta |-> FALSE,
     title |-> "", date |-> "", author |-> ""] }
    \cup { [downloaded |-> TRUE, text |-> a.text, meta |-> TRUE, title |-> a.title,
            date |-> a.date, author |-> a.author] : a \in Articles }
    \cup { [downloaded |-> TRUE, text |-> BodyX, meta |-> FALSE,
             title |-> "", date |-> "", author |-> ""] }

\* found = FALSE stands for the return value None
scrape_with_trafilatura(tresponse) ==
  IF ~tresponse.downloaded THEN
    [found |-> FALSE, title |-> "", content |-> NoText, date |-> "", author |-> ""]
  ELSE IF tresponse.text # NoText THEN
    [found |-> TRUE,
     title |-> IF tresponse.meta THEN tresponse.title ELSE "",
     content |-> tresponse.text,
     date |-> IF tresponse.meta THEN tresponse.date ELSE "",
     author |-> IF tresponse.meta THEN tresponse.author ELSE ""]
  ELSE
    [found |-> FALSE, title |-> "", content |-> NoText, date |-> "", author |-> ""]

(***************************************************************************)
(* detect_pagination: a URL is a sequence of pieces; the piece             *)
(* "tribunnews.com" is what the substring test looks for.                  *)
(***************************************************************************)
BaseUrls ==
  { <<"https://", "www.", "tribunnews.com", "/a">>,
    <<"https://", "example.com", "/a">> }

Contains(u, piece) == \E k \in 1..Len(u) : u[k] = piece

\* str(page_num) for the page numbers the code formats
str(n) == <<"0", "1", "2", "3", "4", "5", "6", "7", "8", "9">>[n + 1]

\* the generic pattern for every domain
detect_pagination_generic(base_url) ==
  <<base_url>> \o
    [k \in 1..(MAX_PAGES - 1) |-> base_url \o <<"?page=", str(k + 1)>>]

detect_pagination(base_url) ==
  <<base_url>> \o
    [k \in 1..(MAX_PAGES - 1) |->
       IF Contains(base_url, "tribunnews.com")
         THEN base_url \o <<"?page=", str(k + 1), "&s=paging_new">>
         ELSE base_url \o <<"?page=", str(k + 1)>>]

(***************************************************************************)
(* Stage 2: the language-model extractor of parse_news.py                  *)
(*                                                                         *)
(* JSON values, as json.loads returns them for the four fields.  A string  *)
(* is a sequence of characters, an array a sequence of strings.            *)
(***************************************************************************)
JNull == [t |-> "null", str |-> <<>>, items |-> <<>>]
JStr(cs) == [t |-> "string", str |-> cs, items |-> <<>>]
JArr(xs) == [t |-> "array", str |-> <<>>, items |-> xs]
JNum(digits) == [t |-> "number", str |-> digits, items |-> <<>>]

\* Python's truth value of a JSON value
Truthy(v) ==
  CASE v.t = "null" -> FALSE
    [] v.t = "string" -> v.str # <<>>
    [] v.t = "array" -> v.items # <<>>
    [] v.t = "number" -> v.str # <<"0">>
    [] OTHER -> TRUE

Hi == <<"h", "i">>
\* a string with the three backquotes in it (the character "<fence>"), and
\* one with ```json in it
Ticks == <<"a", "<fence>", "b">>
TicksJson == <<"<fence>", "json", "c">>
Jakarta == <<"J", "k", "t">>
Zainal == <<"Z", "a", "i", "n", "a", "l">>

Keys == {"quotes", "speakers", "province", "city"}

\* a parsed JSON document: an object (with the keys in `present`) or not
JObject(present, q, sp, pr, ci) ==
  [t |-> "object", present |-> present,
   quotes |-> q, speakers |-> sp, province |-> pr, city |-> ci]
JOther(t) ==
  [t |-> t, present |-> {},
   quotes |-> JNull, speakers |-> JNull, province |-> JNull, city |-> JNull]

Docs ==
  { JObject(Keys, JArr(<<Hi>>), JArr(<<>>), JNull, JStr(Jakarta)),
    JObject(Keys, JArr(<<Hi, Hi>>), JArr(<<Zainal>>), JStr(<<>>), JStr(Jakarta)),
    JObject(Keys, JArr(<<Ticks>>), JArr(<<Zainal>>), JNull, JStr(TicksJson)),
    JObject(Keys, JStr(<<>>), JNum(<<"0">>), JStr(Jakarta), JNull),
    JObject(Keys, JNum(<<"5">>), JArr(<<Zainal>>), JNull, JNull),
    JObject(Keys, JArr(<<Hi>>), JStr(Zainal), JNull, JNull),
    JObject({"quotes", "city"}, JNull, JNull, JNull, JNum(<<"0">>)),
    JObject({}, JNull, JNull, JNull, JNull),
    JOther("array"),
    JOther("string") }

(***************************************************************************)
(* A response text is a sequence of pieces: white space, the fence ```,    *)
(* the word json, the text of a JSON document, or other prose.             *)
(***************************************************************************)
Piece(k) == [k |-> k, doc |-> JOther("none")]
WS == Piece("ws")
FENCE == Piece("fence")
JSONWORD == Piece("json")
PROSE == Piece("prose")
DocText(d) == [k |-> "doc", doc |-> d]

TheDoc == JObject(Keys, JArr(<<Hi>>), JArr(<<>>), JNull, JStr(Jakarta))
TickDoc == JObject(Keys, JArr(<<Ticks>>), JArr(<<Zainal>>), JNull, JStr(TicksJson))

Texts ==
  { <<DocText(d)>> : d \in Docs }
    \cup { <<FENCE, JSONWORD, WS, DocText(TheDoc), WS, FENCE>>,
           <<FENCE, WS, DocText(TheDoc), WS, FENCE>>,
           <<FENCE, JSONWORD, WS, DocText(TickDoc), WS, FENCE>>,
           <<FENCE, WS, DocText(TickDoc), WS, FENCE>>,
           <<FENCE, JSONWORD, WS, DocText(JOther("array")), WS, FENCE>>,
           <<WS, DocText(TheDoc), WS>>,
           <<PROSE, WS, DocText(TheDoc)>>,
           <<PROSE>> }

\* str.strip()
RECURSIVE lstrip(_)
lstrip(text) ==
  IF text # <<>> /\ text[1] = WS THEN lstrip(Tail(text)) ELSE text

RECURSIVE rstrip(_)
rstrip(text) ==
  IF text # <<>> /\ text[Len(text)] = WS
    THEN rstrip(SubSeq(text, 1, Len(text) - 1))
    ELSE text

strip(text) == rstrip(lstrip(text))

\* the fence followed by json, and the fence, taken out of the characters of
\* a string
RECURSIVE chars_remove_fence_json(_)
chars_remove_fence_json(cs) ==
  IF cs = <<>> THEN <<>>
  ELSE IF Len(cs) >= 2 /\ cs[1] = "<fence>" /\ cs[2] = "json"
    THEN chars_remove_fence_json(SubSeq(cs, 3, Len(cs)))
  ELSE <<cs[1]>> \o chars_remove_fence_json(Tail(cs))

RECURSIVE chars_remove_fence(_)
chars_remove_fence(cs) ==
  IF cs = <<>> THEN <<>>
  ELSE IF cs[1] = "<fence>" THEN chars_remove_fence(Tail(cs))
  ELSE <<cs[1]>> \o chars_remove_fence(Tail(cs))

\* one of the two replace calls on the characters of a string
chars_replace(with_json, cs) ==
  IF with_json THEN chars_remove_fence_json(cs) ELSE chars_remove_fence(cs)

\* str.replace works on the whole text, the strings inside a JSON document
\* included
LeafMap(with_json, v) ==
  [t |-> v.t, str |-> chars_replace(with_json, v.str),
   items |-> [k \in 1..Len(v.items) |-> chars_replace(with_json, v.items[k])]]

DocMap(with_json, piece) ==
  IF piece.k # "doc" THEN piece
  ELSE [k |-> "doc",
        doc |-> [t |-> piece.doc.t, present |-> piece.doc.present,
                 quotes |-> LeafMap(with_json, piece.doc.quotes),
                 speakers |-> LeafMap(with_json, piece.doc.speakers),
                 province |-> LeafMap(with_json, piece.doc.province),
                 city |-> LeafMap(with_json, piece.doc.city)]]

\* text.replace("```json", "")
RECURSIVE remove_fence_json(_)
remove_fence_json(text) ==
  IF text = <<>> THEN <<>>
  ELSE IF Len(text) >= 2 /\ text[1] = FENCE /\ text[2] = JSONWORD
    THEN remove_fence_json(SubSeq(text, 3, Len(text)))
  ELSE <<DocMap(TRUE, text[1])>> \o remove_fence_json(Tail(text))

\* text.replace("<fence>", "")
RECURSIVE remove_fence(_)
remove_fence(text) ==
  IF text = <<>> THEN <<>>
  ELSE IF text[1] = FENCE THEN remove_fence(Tail(text))
  ELSE <<DocMap(FALSE, text[1])>> \o remove_fence(Tail(text))

startswith_fence_json(text) ==
  Len(text) >= 2 /\ text[1] = FENCE /\ text[2] = JSONWORD

startswith_fence(text) == Len(text) >= 1 /\ text[1] = FENCE

\* json.loads: the text must be one JSON document, white space around it
\* allowed; ok = FALSE stands for JSONDecodeError
json_loads(text) ==
  LET t == strip(text) IN
    IF Len(t) = 1 /\ t[1].k = "doc"
      THEN [ok |-> TRUE, value |-> t[1].doc]
      ELSE [ok |-> FALSE, value |-> JOther("none")]

\* the result dictionaries; keys is the set of the dictionary's keys
ResultDict(q, sp, pr, ci) ==
  [keys |-> Keys, quotes |-> q, speakers |-> sp, province |-> pr, city |-> ci,
   error |-> ""]

\* lines 470-477
_empty_result == ResultDict(JArr(<<>>), JArr(<<>>), JNull, JNull)

\* result.get(key, default)
Get(obj, key, default) ==
  IF key \in obj.present
    THEN CASE key = "quotes" -> obj.quotes
           [] key = "speakers" -> obj.speakers
           [] key = "province" -> obj.province
           [] OTHER -> obj.city
    ELSE default

\* `x or y` taken as `y if x is None else x`
OrNoneOnly(x, y) == IF x = JNull THEN y ELSE x

\* x or y
Or(x, y) == IF Truthy(x) THEN x ELSE y

\* lines 444-448: the code fences are taken out of the stripped text
clean_fences(stripped) ==
  IF startswith_fence_json(stripped)
    THEN strip(remove_fence(remove_fence_json(stripped)))
  ELSE IF startswith_fence(stripped)
    THEN strip(remove_fence(stripped))
  ELSE stripped

\* lines 450-467: what is made of the outcome of json.loads
validate(parsed) ==
  IF ~parsed.ok THEN _empty_result
  ELSE IF parsed.value.t # "object" THEN _empty_result
  ELSE ResultDict(Or(Get(parsed.value, "quotes", JArr(<<>>)), JArr(<<>>)),
                  Or(Get(parsed.value, "speakers", JArr(<<>>)), JArr(<<>>)),
                  Or(Get(parsed.value, "province", JNull), JNull),
                  Or(Get(parsed.value, "city", JNull), JNull))

\* lines 440-467
_parse_ai_response(response_text) ==
  validate(json_loads(clean_fences(strip(response_text))))

(***************************************************************************)
(* The provider's answers to one generate_content / completions.create     *)
(* call.                                                                   *)
(*   kind         "raise": the call raises exc; "hang": the call does not  *)
(*                return before the alarm of the bounded-time extractor    *)
(*                goes off; "response": it returns                         *)
(*   truthy       the truth value of the response object                   *)
(*   candidates   len(response.candidates) / len(response.choices)         *)
(*   has_finish, finish_reason    of candidates[0]                         *)
(*   text_access  what reading response.text does: "ok" or the exception   *)
(*   parts        what candidate.content.parts offers when it is read      *)
(*   text         the text delivered (response.text, parts[0].text or      *)
(*                choices[0].message.content); <<>> is the empty text      *)
(***************************************************************************)
Answer(kind, exc, truthy, candidates, has_finish, finish_reason, text_access, parts, text) ==
  [kind |-> kind, exc |-> exc, truthy |-> truthy, candidates |-> candidates,
   has_finish |-> has_finish, finish_reason |-> finish_reason,
   text_access |-> text_access, parts |-> parts, text |-> text]

Good(text) == Answer("response", "", TRUE, 1, TRUE, 1, "ok", "text", text)

GeminiAnswers ==
  { Good(t) : t \in Texts }
    \cup { Good(<<>>) }
    \cup { Answer("raise", e, FALSE, 0, FALSE, 0, "ok", "text", <<>>) :
             e \in {"ResourceExhausted", "ServiceUnavailable"} }
    \cup { Answer("response", "", FALSE, 0, FALSE, 0, "ok", "text", <<>>) }
    \cup { Answer("response", "", TRUE, 0, FALSE, 0, "ok", "text", <<>>) }
    \cup { Answer("response", "", TRUE, 1, TRUE, r, "ok", "text", <<DocText(TheDoc)>>) :
             r \in {2, 3} }
    \cup { Answer("response", "", TRUE, 1, FALSE, 0, "ok", "text", <<DocText(TheDoc)>>) }
    \cup { Answer("response", "", TRUE, 1, TRUE, 1, "ValueError", q, <<DocText(TheDoc)>>) :
             q \in {"text", "no_text", "no_parts", "raise"} }
    \cup { Answer("response", "", TRUE, 1, TRUE, 1, "KeyError", "text", <<DocText(TheDoc)>>) }

OpenAIAnswers ==
  { Good(t) : t \in Texts }
    \cup { Good(<<>>) }
    \cup { Answer("raise", e, FALSE, 0, FALSE, 0, "ok", "text", <<>>) :
             e \in {"RateLimitError", "APIConnectionError"} }
    \cup { Answer("response", "", TRUE, 0, FALSE, 0, "ok", "text", <<>>) }

\* no call has been made yet
NoAnswer == Answer("none", "", FALSE, 0, FALSE, 0, "ok", "text", <<>>)

Hang == Answer("hang", "TimeoutError", FALSE, 0, FALSE, 0, "ok", "text", <<>>)

\* the classes that `except Exception` catches, among those that occur
ExceptionClasses ==
  { "ResourceExhausted", "ServiceUnavailable", "RateLimitError",
    "APIConnectionError", "TimeoutError", "IndexError", "KeyError",
    "ValueError", "AttributeError" }

RECURSIVE Pow2(_)
Pow2(n) == IF n = 0 THEN 1 ELSE 2 * Pow2(n - 1)

\* what one pass through the body of the retry loop does:
\*   act     "return" (with result), "continue" (go round again), "fall" (the
\*           end of the body is reached) or "raise" (exc leaves the body)
\*   slept   the time.sleep calls made, in order
Pass(act, res, slept, exc) ==
  [act |-> act, result |-> res, slept |-> slept, exc |-> exc]

\* the backoff taken as 2 * attempt instead of 2 ** attempt
RetryOrEmptyLinear(att, max_retries) ==
  IF att < max_retries - 1
    THEN Pass("continue", _empty_result, <<2 * att>>, "")
    ELSE Pass("return", _empty_result, <<>>, "")

\* lines 296-299, 371-374, 424-427: sleep and go round again, or give up
RetryOrEmpty(att, max_retries) ==
  IF att < max_retries - 1
    THEN Pass("continue", _empty_result, <<Pow2(att)>>, "")
    ELSE Pass("return", _empty_result, <<>>, "")

\* the handler sleeping after the last attempt as well
ExceptHandlerSleepsLast(att, max_retries) ==
  IF att < max_retries - 1
    THEN Pass("continue", _empty_result, <<Pow2(att)>>, "")
    ELSE Pass("fall", _empty_result, <<Pow2(att)>>, "")

\* lines 390-394, 433-435: the handler of `except Exception`
ExceptHandler(att, max_retries) ==
  IF att < max_retries - 1
    THEN Pass("continue", _empty_result, <<Pow2(att)>>, "")
    ELSE Pass("fall", _empty_result, <<>>, "")

\* lines 302-318: a response without candidates
NoCandidates(att, max_retries) == Pass("return", _empty_result, <<>>, "")

\* a finish reason other than STOP handled like an empty response
BadFinishRetried(att, max_retries) == RetryOrEmpty(att, max_retries)

\* lines 320-342: the first candidate's finish reason is not STOP
BadFinish(att, max_retries) == Pass("return", _empty_result, <<>>, "")

\* lines 266-376: the body of the try statement of _extract_with_gemini
GeminiTry(answer, att, max_retries) ==
  IF answer.kind # "response" THEN Pass("raise", _empty_result, <<>>, answer.exc)
  ELSE IF ~answer.truthy THEN RetryOrEmpty(att, max_retries)
  ELSE IF answer.candidates = 0 THEN NoCandidates(att, max_retries)
  ELSE IF answer.has_finish /\ answer.finish_reason # 1
    THEN BadFinish(att, max_retries)
  ELSE IF answer.text_access \notin {"ok", "ValueError", "AttributeError"}
    THEN Pass("raise", _empty_result, <<>>, answer.text_access)
  ELSE IF answer.text_access # "ok" /\ answer.parts # "text"
    THEN Pass("return", _empty_result, <<>>, "")
  ELSE IF answer.text = <<>> THEN RetryOrEmpty(att, max_retries)
  ELSE Pass("return", _parse_ai_response(answer.text), <<>>, "")

\* lines 403-429: the body of the try statement of _extract_with_openai
OpenAITry(answer, att, max_retries) ==
  IF answer.kind # "response" THEN Pass("raise", _empty_result, <<>>, answer.exc)
  ELSE IF answer.candidates = 0 THEN Pass("raise", _empty_result, <<>>, "IndexError")
  ELSE IF answer.text = <<>> THEN RetryOrEmpty(att, max_retries)
  ELSE Pass("return", _parse_ai_response(answer.text), <<>>, "")

\* a handler that catches the API's own exception classes only
CatchesApiOnly(exc) ==
  exc \in {"ResourceExhausted", "ServiceUnavailable", "RateLimitError",
           "APIConnectionError"}

\* except Exception as e
Catches(exc) == exc \in ExceptionClasses

\* one iteration of `for attempt in range(max_retries)`:
\* lines 264-394 (gemini) and 401-435 (openai)
Handled(body, att, max_retries) ==
  IF body.act = "raise" /\ Catches(body.exc)
    THEN ExceptHandler(att, max_retries)
    ELSE body

Iteration(prov, answer, att, max_retries) ==
  Handled(IF prov = "gemini" THEN GeminiTry(answer, att, max_retries)
          ELSE OpenAITry(answer, att, max_retries),
          att, max_retries)

\* _extract_with_gemini / _extract_with_openai called with max_retries = 1,
\* as parse_self_content does (lines 272-275): one iteration, then line 396/437
AfterLoop(it) ==
  IF it.act = "return" THEN it
  ELSE IF it.act = "raise" THEN it
  ELSE Pass("return", _empty_result, it.slept, "")

SinglePass(prov, answer) == AfterLoop(Iteration(prov, answer, 0, 1))

(***************************************************************************)
(* State of one call of scrape_all_pages(url, token)                       *)
(***************************************************************************)
VARIABLES
  url,             \* the argument
  pc,              \* "diffbot": about to call the primary provider on page i
                   \* "trafilatura": about to call the fallback on page 1
                   \* "returned": scrape_all_pages has returned
  i,               \* the page index of the for loop, 1..MAX_PAGES
  attempt,         \* the index of the retry loop, 0..MAX_RETRIES
  result,          \* the last result of scrape_with_diffbot
  all_content,     \* the accumulator of accepted page bodies
  extracted_data,  \* the record under construction
  returned,        \* "pending", "record" (extracted_data returned) or "None"
  \* what happened, recorded for the properties
  pageCalls,       \* primary calls made for page i
  diffbotCalls,    \* primary calls made in all
  trafCalls,       \* fallback calls made
  retrySleeps,     \* time.sleep(RETRY_DELAY) calls
  pageDelays,      \* time.sleep(DELAY_BETWEEN_PAGES) calls
  onlyForbidden,   \* every primary response for page i so far was a 403 / forbidden
  accepted,        \* the accepted pages: <<page, body, provider>> in order
  stop,            \* why the loop over the pages ended
  trafBody         \* the body the fallback library recovered

(***************************************************************************)
(* State of one article going through the extractor: extract_info_with_ai  *)
(* of parse_news.py, or the bounded-time extract_info_with_ai of           *)
(* parse_self_content.py followed by save_parsed_csv                       *)
(***************************************************************************)
VARIABLES
  variant,         \* "parse_news" or "parse_self_content" ("none": not in use)
  provider,        \* AI_PROVIDER: "gemini" or "openai"
  max_retries,     \* the argument max_retries (AI_MAX_RETRIES by default)
  ex_content,      \* the content of the article
  ex_pc,           \* "start", "call" (about to call the provider), "done"
                   \* (a result was returned), "raised" (an exception left
                   \* the extractor), "saved" (the rows were written)
  ex_attempt,      \* the loop index `attempt`
  ex_result,       \* the result returned
  alarm_armed,     \* a SIGALRM timer is pending
  rows,            \* the rows save_parsed_csv wrote
  \* what happened, recorded for the properties
  providerCalls,   \* calls of the provider made
  sleeps,          \* the arguments of the time.sleep calls, in order
  outcomes,        \* what each provider call did, in order
  last_answer      \* the provider's answer to the last call

(***************************************************************************)
(* State of one run of stage 2, parse_news.py: batch_parse on the articles *)
(* read, then save_parsed_csv                                              *)
(***************************************************************************)
VARIABLES
  articles,        \* the argument: the articles read from the input feed
  threads,         \* PARSING_THREADS
  cloud,           \* not LOCAL_MODE
  roster,          \* whitelist is not None
  gcs_ok,          \* get_gcs_client() returns a client
  order,           \* multi-threaded path: the order in which as_completed
                   \* yields the futures (indices into articles)
  finish,          \* multi-threaded path: the order in which the workers
                   \* finish (indices into articles)
  early,           \* the number of workers that have finished when
                   \* as_completed is called
  results_lock,    \* results_lock is held
  bp_pc,           \* "start", "loop" (single-threaded loop), "pool" (the loop
                   \* over as_completed), "locked" (inside with results_lock),
                   \* "returned", "crashed" (an exception left batch_parse),
                   \* "saved" (save_parsed_csv has written)
  bp_i,            \* the articles handled so far
  results,         \* the results collection
  completed,       \* the counter `completed` of the multi-threaded path
  checkpoints,     \* the calls of save_checkpoint_to_gcs, in order
  csv_rows,        \* the rows save_parsed_csv wrote
  extract_calls,   \* calls of extract_info_with_ai
  bp_sleeps        \* time.sleep(DELAY_BETWEEN_REQUESTS) calls

parseVars ==
  <<articles, threads, cloud, roster, gcs_ok, order, finish, early,
    results_lock, bp_pc, bp_i, results, completed, checkpoints, csv_rows,
    extract_calls, bp_sleeps>>

(***************************************************************************)
(* State of one run of stage 1, extract_news.py: batch_scrape on the       *)
(* records read, then save_to_gcs / save_results_csv                       *)
(***************************************************************************)
VARIABLES
  url_data_list,   \* the argument: the records read from the input feed
  bs_pc,           \* "loop", "returned", "saved"
  bs_results,      \* the results list
  bs_checkpoints,  \* the calls of save_checkpoint_to_gcs, in order
  bs_sleeps,       \* time.sleep(DELAY_BETWEEN_URLS) calls
  feed,            \* the rows of the output feed
  bs_cloud         \* not LOCAL_MODE

batchVars ==
  <<url_data_list, bs_pc, bs_results, bs_checkpoints, bs_sleeps, feed, bs_cloud>>

(***************************************************************************)
(* State of one call of match_speaker (parse_news.py)                      *)
(***************************************************************************)
VARIABLES
  ms_spoke_person, \* the argument spoke_person: the speaker text
  ms_whitelist,    \* the argument whitelist: the roster load_whitelist delivered
  ms_pc,           \* "call", "returned"
  ms_entry         \* the entry returned

matchVars == <<ms_spoke_person, ms_whitelist, ms_pc, ms_entry>>

extractVars ==
  <<variant, provider, max_retries, ex_content, ex_pc, ex_attempt, ex_result,
    alarm_armed, rows, providerCalls, sleeps, outcomes, last_answer>>

scrapeVars ==
  <<url, pc, i, attempt, result, all_content, extracted_data, returned,
    pageCalls, diffbotCalls, trafCalls, retrySleeps, pageDelays, onlyForbidden,
    accepted, stop, trafBody>>

(***************************************************************************)
(* scrape_all_pages                                                        *)
(***************************************************************************)
InitScrape ==
  /\ url \in BaseUrls
  /\ pc = "diffbot"
  /\ i = 1
  /\ attempt = 0
  /\ result = ErrorResult("UNSET")
  /\ all_content = <<>>
  /\ extracted_data =
       [title |-> "", content |-> NoText, date |-> "", author |-> "",
        pages_scraped |-> 0, method |-> "diffbot"]
  /\ returned = "pending"
  /\ pageCalls = 0
  /\ diffbotCalls = 0
  /\ trafCalls = 0
  /\ retrySleeps = 0
  /\ pageDelays = 0
  /\ onlyForbidden = TRUE
  /\ accepted = <<>>
  /\ stop = ""
  /\ trafBody = NoText

\* a 403 answer: HTTP 403, or an embedded error that mentions 403 / forbidden
\* and is not a rate-limit message
IsForbidden(response) ==
  /\ response.kind = "http"
  /\ \/ response.status_code = 403
     \/ /\ response.status_code = 200
        /\ response.has_error
        /\ response.error_msg \cap {"403", "forbidden"} # {}
        /\ response.error_msg \cap {"rate limit", "429"} = {}

\* pages_scraped taken from the page index instead of the number of pages
CombineByIndex(ac, ed, why) ==
  /\ pc' = "returned"
  /\ stop' = why
  /\ IF ac # <<>>
       THEN /\ extracted_data' =
                 [ed EXCEPT !.content = join(PAGE_BREAK, ac),
                            !.pages_scraped = i]
            /\ returned' = "record"
       ELSE /\ extracted_data' = ed
            /\ returned' = "None"

\* lines 505-511: combine the pages and return
Combine(ac, ed, why) ==
  /\ pc' = "returned"
  /\ stop' = why
  /\ IF ac # <<>>
       THEN /\ extracted_data' =
                 [ed EXCEPT !.content = join(PAGE_BREAK, ac),
                            !.pages_scraped = Len(ac)]
            /\ returned' = "record"
       ELSE /\ extracted_data' = ed
            /\ returned' = "None"

\* a break out of the loop over the pages
Break(why) ==
  /\ Combine(all_content, extracted_data, why)
  /\ UNCHANGED <<i, attempt, all_content, accepted, pageDelays>>

\* the inter-page delay slept after every accepted page, the last one included
AcceptDelayAlways(body, ed, by) ==
  /\ all_content' = Append(all_content, body)
  /\ accepted' = Append(accepted, <<i, body, by>>)
  /\ pageDelays' = pageDelays + 1
  /\ IF i < Len(detect_pagination(url))
       THEN /\ i' = i + 1
            /\ attempt' = 0
            /\ pc' = "diffbot"
            /\ extracted_data' = ed
            /\ UNCHANGED <<returned, stop>>
       ELSE /\ Combine(Append(all_content, body), ed, "no_more_pages")
            /\ UNCHANGED <<i, attempt>>

\* the scrape ended by the first accepted page: no pagination after it
AcceptFirstOnly(body, ed, by) ==
  /\ all_content' = Append(all_content, body)
  /\ accepted' = Append(accepted, <<i, body, by>>)
  /\ Combine(Append(all_content, body), ed, "no_more_pages")
  /\ UNCHANGED <<i, attempt, pageDelays>>

\* the loop over the pages not advancing after an accepted page
AcceptSamePage(body, ed, by) ==
  /\ all_content' = Append(all_content, body)
  /\ accepted' = Append(accepted, <<i, body, by>>)
  /\ pageDelays' = pageDelays + 1
  /\ attempt' = 0
  /\ pc' = "diffbot"
  /\ extracted_data' = ed
  /\ UNCHANGED <<i, returned, stop>>

\* all_content.append(body), then lines 502-503 and the next iteration
Accept(body, ed, by) ==
  /\ all_content' = Append(all_content, body)
  /\ accepted' = Append(accepted, <<i, body, by>>)
  /\ IF i < Len(detect_pagination(url))
       THEN /\ pageDelays' = pageDelays + 1
            /\ i' = i + 1
            /\ attempt' = 0
            /\ pc' = "diffbot"
            /\ extracted_data' = ed
            /\ UNCHANGED <<returned, stop>>
       ELSE /\ Combine(Append(all_content, body), ed, "no_more_pages")
            /\ UNCHANGED <<i, attempt, pageDelays>>

\* page 1 failed on the primary provider: scrape_with_trafilatura is next
TryTrafilatura ==
  /\ pc' = "trafilatura"
  /\ UNCHANGED <<i, attempt, all_content, extracted_data, returned, pageDelays,
                 accepted, stop>>

\* lines 391-411
RateLimitBranch == IF i = 1 THEN TryTrafilatura ELSE Break("error")

\* lines 413-432
ForbiddenBranch == IF i = 1 THEN TryTrafilatura ELSE Break("error")

\* a later-page failure taken as fatal: return None instead of break
NoContentBranchFatal ==
  IF i > 1
    THEN /\ Combine(<<>>, extracted_data, "error")
         /\ UNCHANGED <<i, attempt, all_content, accepted, pageDelays>>
    ELSE TryTrafilatura

\* lines 434-452
NoContentBranch == IF i > 1 THEN Break("error") ELSE TryTrafilatura

\* the fallback tried on whatever page the error occurs
OtherErrorBranchAnyPage == TryTrafilatura

\* lines 454-473
OtherErrorBranch == IF i > 1 THEN Break("error") ELSE TryTrafilatura

\* >= in place of >
LongEnoughInclusive(content) ==
  content # NoText /\ Len(content) >= MIN_CONTENT_LEN

\* content and len(content) > 100 (lines 398, 419, 442, 463, 475)
LongEnough(content) ==
  content # NoText /\ Len(content) > MIN_CONTENT_LEN

\* the page compared with the first page instead of the preceding one
IsDuplicateOfFirst(content) ==
  all_content # <<>> /\ content = all_content[1]

\* line 477: all_content and result['content'] == all_content[-1]
IsDuplicate(content) ==
  all_content # <<>> /\ content = all_content[Len(all_content)]

\* title, date and author taken from every accepted page, not from page 1 only
HandleResultAnyPage(r) ==
  IF r.error # NONE THEN
    CASE r.error = "RATE_LIMIT" -> RateLimitBranch
      [] r.error = "FORBIDDEN" -> ForbiddenBranch
      [] r.error = "NO_CONTENT" -> NoContentBranch
      [] OTHER -> OtherErrorBranch
  ELSE IF LongEnough(r.content) THEN
    IF IsDuplicate(r.content)
      THEN Break("duplicate")
      ELSE Accept(r.content,
                  [extracted_data EXCEPT !.title = r.title,
                                         !.date = r.date,
                                         !.author = r.author],
                  "diffbot")
  ELSE Break("empty")

\* lines 386-500: the branches on the final result of the retry loop
HandleResult(r) ==
  IF r.error # NONE THEN
    CASE r.error = "RATE_LIMIT" -> RateLimitBranch
      [] r.error = "FORBIDDEN" -> ForbiddenBranch
      [] r.error = "NO_CONTENT" -> NoContentBranch
      [] OTHER -> OtherErrorBranch
  ELSE IF LongEnough(r.content) THEN
    IF IsDuplicate(r.content)
      THEN Break("duplicate")
      ELSE Accept(r.content,
                  IF i = 1
                    THEN [extracted_data EXCEPT !.title = r.title,
                                                !.date = r.date,
                                                !.author = r.author]
                    ELSE extracted_data,
                  "diffbot")
  ELSE Break("empty")

\* a rate-limited request repeated like a forbidden one
RetryAgainRateLimit(r, att) ==
  r.error \in {"FORBIDDEN_RETRY", "RATE_LIMIT"} /\ att < MAX_RETRIES

\* lines 373-384: does this result make the retry loop go round again
RetryAgain(r, att) == r.error = "FORBIDDEN_RETRY" /\ att < MAX_RETRIES

\* one iteration of the retry loop (lines 373-384) and, when the loop ends,
\* the handling of the page (lines 386-503)
DiffbotAttempt(response) ==
  /\ pc = "diffbot"
  /\ \E r \in {scrape_with_diffbot(response, attempt)} :
       /\ result' = r
       /\ pageCalls' = (IF attempt = 0 THEN 0 ELSE pageCalls) + 1
       /\ diffbotCalls' = diffbotCalls + 1
       /\ onlyForbidden' =
            ((attempt = 0 \/ onlyForbidden) /\ IsForbidden(response))
       /\ retrySleeps' =
            IF r.error = "FORBIDDEN_RETRY" THEN retrySleeps + 1 ELSE retrySleeps
       /\ IF RetryAgain(r, attempt)
            THEN /\ attempt' = attempt + 1
                 /\ UNCHANGED <<pc, i, all_content, extracted_data, returned,
                                pageDelays, accepted, stop>>
            ELSE HandleResult(r)
  /\ UNCHANGED <<url, trafCalls, trafBody>>
  /\ UNCHANGED <<extractVars, parseVars, batchVars, matchVars>>

\* the fallback call on page 1 and what follows it
\* (lines 397-408, 418-429, 441-452, 462-473)
TrafilaturaFallback(tresponse) ==
  /\ pc = "trafilatura"
  /\ \E traf_result \in {scrape_with_trafilatura(tresponse)} :
       IF traf_result.found /\ LongEnough(traf_result.content)
         THEN Accept(traf_result.content,
                     [extracted_data EXCEPT !.title = traf_result.title,
                                            !.date = traf_result.date,
                                            !.author = traf_result.author,
                                            !.method = "trafilatura"],
                     "trafilatura")
         ELSE Break("fallback_failed")
  /\ trafCalls' = trafCalls + 1
  /\ trafBody' = IF tresponse.downloaded THEN tresponse.text ELSE NoText
  /\ UNCHANGED <<url, result, pageCalls, diffbotCalls, retrySleeps, onlyForbidden>>
  /\ UNCHANGED <<extractVars, parseVars, batchVars, matchVars>>

NextScrape ==
  \/ \E response \in DiffbotResponses : DiffbotAttempt(response)
  \/ \E tresponse \in TrafResponses : TrafilaturaFallback(tresponse)

(***************************************************************************)
(* Strings of characters: the str methods match_speaker uses               *)
(***************************************************************************)
ToLower(c) ==
  CASE c = "A" -> "a" [] c = "J" -> "j" [] c = "K" -> "k" [] c = "P" -> "p"
    [] c = "S" -> "s" [] c = "Z" -> "z"
    [] OTHER -> c

lower(cs) == [k \in 1..Len(cs) |-> ToLower(cs[k])]

IsSpace(c) == c \in {" ", "\n", "\t"}

RECURSIVE str_lstrip(_)
str_lstrip(cs) == IF cs # <<>> /\ IsSpace(cs[1]) THEN str_lstrip(Tail(cs)) ELSE cs

RECURSIVE str_rstrip(_)
str_rstrip(cs) ==
  IF cs # <<>> /\ IsSpace(cs[Len(cs)])
    THEN str_rstrip(SubSeq(cs, 1, Len(cs) - 1))
    ELSE cs

str_strip(cs) == str_rstrip(str_lstrip(cs))

\* cs.split(','): the pieces between the commas
RECURSIVE split_comma(_, _)
split_comma(cs, piece) ==
  IF cs = <<>> THEN <<piece>>
  ELSE IF cs[1] = "," THEN <<piece>> \o split_comma(Tail(cs), <<>>)
  ELSE split_comma(Tail(cs), Append(piece, cs[1]))

\* a in b, for strings
IsIn(a, b) ==
  \E k \in 0..(Len(b) - Len(a)) : SubSeq(b, k + 1, k + Len(a)) = a

(***************************************************************************)
(* The roster and match_speaker (parse_news.py)                            *)
(***************************************************************************)
Entry(fullname, jabatan, category, alias) ==
  [fullname |-> fullname, jabatan |-> jabatan, category |-> category,
   alias |-> alias]

NoMatch == Entry(<<>>, <<>>, <<>>, <<>>)

\* the roster as load_whitelist delivers it: alias stripped and lower-cased
WHITELIST ==
  << Entry(<<"P", "a", "k", " ", "S">>, <<"s", "e", "k", "d", "a">>, <<"g", "o", "v">>,
           <<"s", "e", "k", "d", "a">>),
     Entry(<<"Z", " ", "A">>, <<"k", "a">>, <<"g", "o", "v">>,
           <<"z", "a", "i", "n", "a", "l", ",", " ", "z", "a">>) >>

\* lines 555-560: the index of the first entry with a matching alias, or 0
RECURSIVE FirstPass(_, _, _)
FirstPass(spoke_lower, whitelist, k) ==
  IF k > Len(whitelist) THEN 0
  ELSE
    LET entry == whitelist[k]
        aliases ==
          IF entry.alias # <<>>
            THEN LET parts == split_comma(entry.alias, <<>>)
                 IN [j \in 1..Len(parts) |-> str_strip(parts[j])]
            ELSE <<>>
    IN IF \E j \in 1..Len(aliases) :
            aliases[j] # <<>> /\ (IsIn(aliases[j], spoke_lower) \/ IsIn(spoke_lower, aliases[j]))
         THEN k
         ELSE FirstPass(spoke_lower, whitelist, k + 1)

\* lines 565-567
RECURSIVE SecondPass(_, _, _)
SecondPass(spoke_lower, whitelist, k) ==
  IF k > Len(whitelist) THEN 0
  ELSE IF whitelist[k].alias # <<>> /\ IsIn(spoke_lower, whitelist[k].alias) THEN k
  ELSE SecondPass(spoke_lower, whitelist, k + 1)

\* lines 546-570
match_speaker(spoke_person, whitelist) ==
  IF spoke_person = <<>> \/ whitelist = <<>> THEN NoMatch
  ELSE
    LET spoke_lower == str_strip(lower(spoke_person))
        first == FirstPass(spoke_lower, whitelist, 1)
        second == SecondPass(spoke_lower, whitelist, 1)
    IN IF first # 0 THEN whitelist[first]
       ELSE IF second # 0 THEN whitelist[second]
       ELSE NoMatch

(***************************************************************************)
(* parse_self_content.py: the results of the bounded-time extractor and    *)
(* the rows save_parsed_csv writes                                         *)
(***************************************************************************)
ERROR_TIMEOUT ==
  <<"E", "R", "R", "O", "R", " ", "T", "I", "M", "E", "O", "U", "T">>
ERROR == <<"E", "R", "R", "O", "R">>

\* lines 291-297, 308-314, 317-323
ErrorDict(sentinel, error) ==
  [keys |-> Keys \cup {"error"}, quotes |-> JArr(<<>>), speakers |-> JArr(<<>>),
   province |-> JStr(sentinel), city |-> JStr(sentinel), error |-> error]

\* the article the extractor works on
ARTICLE == [id |-> "1", date |-> "2024-01-01", source |-> "https://example.com/a"]

Row(res, quote, spoke_person, province, city, match) ==
  [id |-> res.id, date |-> res.date, source |-> res.source,
   quote |-> quote, spoke_person |-> spoke_person,
   province |-> province, city |-> city,
   jabatan |-> match.jabatan, category |-> match.category,
   alias |-> match.alias, fullname |-> match.fullname]

\* lines 456-465 of batch_parse: the result recorded for the article
BatchResult(article, extracted) ==
  [id |-> article.id, date |-> article.date, source |-> article.source,
   quotes |-> extracted.quotes, speakers |-> extracted.speakers,
   province |-> extracted.province, city |-> extracted.city,
   error |-> extracted.error]

\* what Python iterates over and indexes in a JSON value: the items of an
\* array, the characters of a string
Items(v) ==
  IF v.t = "string" THEN [k \in 1..Len(v.str) |-> <<v.str[k]>>] ELSE v.items

\* len(v) is defined (a number has no len: TypeError)
Sized(v) == v.t \in {"string", "array"}

\* lines 371-420: the rows written for one result
RowsOf(res, whitelist) ==
  IF res.error = "timeout" THEN
    << Row(res, ERROR_TIMEOUT, ERROR_TIMEOUT, ERROR_TIMEOUT, ERROR_TIMEOUT, NoMatch) >>
  ELSE IF ~Truthy(res.quotes) THEN
    << Row(res, <<>>, <<>>, Or(res.province, JStr(<<>>)).str,
           Or(res.city, JStr(<<>>)).str, NoMatch) >>
  ELSE
    [k \in 1..Len(Items(res.quotes)) |->
       LET spoke_person ==
             IF k - 1 < Len(Items(res.speakers)) THEN Items(res.speakers)[k] ELSE <<>>
       IN Row(res, Items(res.quotes)[k], spoke_person,
              Or(res.province, JStr(<<>>)).str, Or(res.city, JStr(<<>>)).str,
              match_speaker(spoke_person, whitelist))]

\* lines 370-420: for result in results
RECURSIVE save_parsed_csv(_, _)
save_parsed_csv(rs, whitelist) ==
  IF rs = <<>> THEN <<>>
  ELSE RowsOf(rs[1], whitelist) \o save_parsed_csv(Tail(rs), whitelist)

(***************************************************************************)
(* The extractor's steps                                                   *)
(***************************************************************************)
\* AI_MAX_RETRIES, the default of max_retries
AI_MAX_RETRIES == 3
\* the largest max_retries the model configures
MaxRetriesBound == 4

Answers(prov) == IF prov = "gemini" THEN GeminiAnswers ELSE OpenAIAnswers

\* json.loads succeeded and isinstance(result, dict)
IsObject(parsed) == parsed.ok /\ parsed.value.t = "object"

\* what a provider call did, read off the answer alone
Classify(answer) ==
  CASE answer.kind = "raise" -> "raise"
    [] answer.kind = "hang" -> "hang"
    [] ~answer.truthy -> "falsy"
    [] answer.candidates = 0 -> "no_candidates"
    [] answer.has_finish /\ answer.finish_reason # 1 -> "bad_finish"
    [] answer.text_access # "ok" -> "text_error"
    [] answer.text = <<>> -> "empty_text"
    [] ~IsObject(json_loads(clean_fences(strip(answer.text)))) -> "malformed"
    [] OTHER -> "text"

\* the contents of an article: none, blanks only, a text
Contents == {NoText, <<" ">>, <<" ", "\n">>, <<"t">>}

\* not content or content.strip() == '' (parse_news.py line 764,
\* parse_self_content.py line 440)
NoContent(content) == content = <<>> \/ str_strip(content) = <<>>

\* an article without content sent to the extractor like any other
SkipNoContentNever(content) == FALSE

\* parse_news.py line 764, parse_self_content.py line 440: the article is
\* skipped
SkipNoContent(content) == NoContent(content)

InitExtract ==
  /\ variant \in {"parse_news", "parse_self_content"}
  /\ provider \in {"gemini", "openai"}
  /\ max_retries \in 0..MaxRetriesBound
  /\ ex_content \in IF variant = "parse_self_content" THEN Contents ELSE {<<"t">>}
  /\ ex_pc = "start"
  /\ ex_attempt = 0
  /\ ex_result = _empty_result
  /\ alarm_armed = FALSE
  /\ rows = <<>>
  /\ providerCalls = 0
  /\ sleeps = <<>>
  /\ outcomes = <<>>
  /\ last_answer = NoAnswer

\* the extractor is not in use
IdleExtract ==
  /\ variant = "none"
  /\ provider = "gemini"
  /\ max_retries = AI_MAX_RETRIES
  /\ ex_content = <<"t">>
  /\ ex_pc = "idle"
  /\ ex_attempt = 0
  /\ ex_result = _empty_result
  /\ alarm_armed = FALSE
  /\ rows = <<>>
  /\ providerCalls = 0
  /\ sleeps = <<>>
  /\ outcomes = <<>>
  /\ last_answer = NoAnswer

\* the entry of the retry loop: parse_news.py lines 253-264 / 401 and 396 / 437,
\* parse_self_content.py lines 252-262 and 316-323
ExtractStart ==
  /\ ex_pc = "start"
  /\ variant = "parse_self_content" => ~SkipNoContent(ex_content)
  /\ IF max_retries > 0
       THEN /\ ex_pc' = "call"
            /\ UNCHANGED ex_result
       ELSE /\ ex_pc' = "done"
            /\ ex_result' = IF variant = "parse_news" THEN _empty_result
                             ELSE ErrorDict(ERROR, "unknown")
  /\ UNCHANGED <<variant, provider, max_retries, ex_content, ex_attempt, alarm_armed,
                 rows, providerCalls, sleeps, outcomes, last_answer>>
  /\ UNCHANGED <<scrapeVars, parseVars, batchVars, matchVars>>

\* parse_news.py: one iteration of the loop of _extract_with_gemini /
\* _extract_with_openai, and the return after the loop (lines 396, 437)
ProviderAttempt(answer) ==
  /\ ex_pc = "call"
  /\ variant = "parse_news"
  /\ \E it \in {Iteration(provider, answer, ex_attempt, max_retries)} :
       /\ sleeps' = sleeps \o it.slept
       /\ CASE it.act = "return" ->
                 /\ ex_pc' = "done"
                 /\ ex_result' = it.result
                 /\ UNCHANGED ex_attempt
            [] it.act = "raise" ->
                 /\ ex_pc' = "raised"
                 /\ UNCHANGED <<ex_result, ex_attempt>>
            [] OTHER ->
                 IF ex_attempt + 1 < max_retries
                   THEN /\ ex_attempt' = ex_attempt + 1
                        /\ UNCHANGED <<ex_pc, ex_result>>
                   ELSE /\ ex_pc' = "done"
                        /\ ex_result' = _empty_result
                        /\ UNCHANGED ex_attempt
  /\ providerCalls' = providerCalls + 1
  /\ outcomes' = Append(outcomes, Classify(answer))
  /\ last_answer' = answer
  /\ UNCHANGED <<variant, provider, max_retries, ex_content, alarm_armed, rows>>
  /\ UNCHANGED <<scrapeVars, parseVars, batchVars, matchVars>>

\* parse_self_content.py lines 282-297 and 299-314: the handlers of the
\* bounded-time extractor, for an exception of class exc
OuterHandler(exc) ==
  IF ex_attempt < max_retries - 1
    THEN /\ ex_attempt' = ex_attempt + 1
         /\ UNCHANGED <<ex_pc, ex_result>>
    ELSE /\ ex_pc' = "done"
         /\ ex_result' = IF exc = "TimeoutError" THEN ErrorDict(ERROR_TIMEOUT, "timeout")
                          ELSE ErrorDict(ERROR, "exception")
         /\ UNCHANGED ex_attempt

\* the alarm left as it is
signal_alarm_kept(pending) == pending

\* signal.alarm(0), parse_self_content.py lines 276, 283 and 300: whether an
\* alarm is pending afterwards.  pending: the alarm set at line 264 has not
\* gone off
signal_alarm_0(pending) == FALSE

\* parse_self_content.py lines 262-314: one iteration of the loop of
\* extract_info_with_ai.  late: the alarm goes off after the provider call
\* has returned and _extract_with_... has left its try statement, before
\* signal.alarm(0)
BoundedAttempt(answer, late) ==
  /\ ex_pc = "call"
  /\ variant = "parse_self_content"
  /\ \E sp \in {SinglePass(provider, answer)} :
       /\ sleeps' = sleeps \o (IF ex_attempt > 0 THEN <<2>> ELSE <<>>) \o sp.slept
       /\ IF late THEN
            /\ OuterHandler("TimeoutError")
            /\ alarm_armed' = signal_alarm_0(FALSE)
          ELSE IF sp.act = "return" THEN
            /\ ex_pc' = "done"
            /\ ex_result' = sp.result
            /\ alarm_armed' = signal_alarm_0(answer # Hang)
            /\ UNCHANGED ex_attempt
          ELSE IF Catches(sp.exc) THEN
            /\ OuterHandler(sp.exc)
            /\ alarm_armed' = signal_alarm_0(sp.exc # "TimeoutError")
          ELSE
            /\ ex_pc' = "raised"
            /\ alarm_armed' = TRUE
            /\ UNCHANGED <<ex_result, ex_attempt>>
  /\ providerCalls' = providerCalls + 1
  /\ outcomes' = Append(outcomes, IF late THEN "late_alarm" ELSE Classify(answer))
  /\ last_answer' = answer
  /\ UNCHANGED <<variant, provider, max_retries, ex_content, rows>>
  /\ UNCHANGED <<scrapeVars, parseVars, batchVars, matchVars>>

\* parse_self_content.py lines 440-451: batch_parse records an empty result
\* for an article without content and goes on to the next article
SkipArticle ==
  /\ ex_pc = "start"
  /\ variant = "parse_self_content"
  /\ SkipNoContent(ex_content)
  /\ ex_pc' = "done"
  /\ ex_result' = _empty_result
  /\ UNCHANGED <<variant, provider, max_retries, ex_content, ex_attempt, alarm_armed,
                 rows, providerCalls, sleeps, outcomes, last_answer>>
  /\ UNCHANGED <<scrapeVars, parseVars, batchVars, matchVars>>

\* parse_self_content.py: batch_parse records the result (lines 456-467) and
\* save_parsed_csv writes its rows
SaveParsedCsv ==
  /\ ex_pc = "done"
  /\ variant = "parse_self_content"
  /\ IF ex_result.error # "timeout" /\ ~(Sized(ex_result.quotes) /\ Sized(ex_result.speakers))
       THEN \* lines 472-473: len() of a number raises TypeError in batch_parse
            /\ ex_pc' = "raised"
            /\ UNCHANGED rows
       ELSE /\ rows' = save_parsed_csv(<<BatchResult(ARTICLE, ex_result)>>, WHITELIST)
            /\ ex_pc' = "saved"
  /\ UNCHANGED <<variant, provider, max_retries, ex_content, ex_attempt, ex_result,
                 alarm_armed, providerCalls, sleeps, outcomes, last_answer>>
  /\ UNCHANGED <<scrapeVars, parseVars, batchVars, matchVars>>

\* the answers and alarm timings one iteration of the bounded-time extractor
\* can meet: a call that hangs is ended by the alarm, so the alarm is not late
BoundedInputs ==
  { <<answer, late>> \in (GeminiAnswers \cup OpenAIAnswers \cup {Hang}) \X BOOLEAN :
      /\ answer \in Answers(provider) \cup {Hang}
      /\ late => answer # Hang }

NextExtract ==
  \/ ExtractStart
  \/ SkipArticle
  \/ \E answer \in GeminiAnswers \cup OpenAIAnswers :
       answer \in Answers(provider) /\ ProviderAttempt(answer)
  \/ \E input \in BoundedInputs : BoundedAttempt(input[1], input[2])
  \/ SaveParsedCsv

(***************************************************************************)
(* Stage 2, parse_news.py: parse_single_article, batch_parse,              *)
(* save_checkpoint_to_gcs and save_parsed_csv                              *)
(***************************************************************************)
\* a checkpoint every 100 items (lines 816, 844)
CHECKPOINT_EVERY == 100
\* the longest batch in which every article is chosen freely
ShortBatch == 2
\* the longest batch: past the second checkpoint
LongBatch == 201

\* lines 766-774, 781-789, 851-859: a result of batch_parse
NewsResult(article, extracted) ==
  [id |-> article.id, date |-> article.date, source |-> article.source,
   quotes |-> extracted.quotes, speakers |-> extracted.speakers,
   province |-> extracted.province, city |-> extracted.city]

\* what extract_info_with_ai returns for the content of an article: the empty
\* result, or what _parse_ai_response makes of the provider's text
Extractions ==
  { _empty_result,
    _parse_ai_response(<<DocText(TheDoc)>>),
    _parse_ai_response(<<DocText(
        JObject(Keys, JArr(<<Hi, Hi>>), JArr(<<Zainal>>), JStr(<<>>), JStr(Jakarta)))>>),
    _parse_ai_response(<<DocText(
        JObject(Keys, JNum(<<"5">>), JArr(<<Zainal>>), JNull, JNull))>>),
    _parse_ai_response(<<DocText(
        JObject(Keys, JArr(<<Hi>>), JStr(Zainal), JNull, JNull))>>) }

\* an article of the input feed (lines 668-673) by its content, with what
\* extract_info_with_ai returns for that content
ArticleKinds ==
  { [content |-> NoText, extracted |-> _empty_result],
    [content |-> <<" ">>, extracted |-> _empty_result],
    [content |-> <<" ", "\n">>, extracted |-> _parse_ai_response(<<DocText(TheDoc)>>)] }
    \cup { [content |-> <<"t">>, extracted |-> e] : e \in Extractions }

PlainKind ==
  [content |-> <<"t">>, extracted |-> _parse_ai_response(<<DocText(TheDoc)>>)]

\* the kinds of the one article of a long batch that is not plain
LongKinds ==
  { PlainKind,
    [content |-> NoText, extracted |-> _empty_result],
    [content |-> <<"t">>,
     extracted |-> _parse_ai_response(<<DocText(
        JObject(Keys, JNum(<<"5">>), JArr(<<Zainal>>), JNull, JNull))>>)] }

Article(id, kind) ==
  [id |-> id, date |-> "2024-01-01", source |-> "https://example.com/a",
   content |-> kind.content, extracted |-> kind.extracted]

\* the batches: short ones of any articles, long ones of plain articles but one
ShortBatches ==
  { [k \in DOMAIN f |-> Article(k, f[k])] :
      f \in UNION { [1..n -> ArticleKinds] : n \in 1..ShortBatch } }

LongBatches ==
  { [k \in 1..n |-> Article(k, IF k = p THEN kind ELSE PlainKind)] :
      n \in {CHECKPOINT_EVERY, LongBatch}, p \in {1, CHECKPOINT_EVERY},
      kind \in LongKinds }

\* the orders in which the workers of n futures finish: submission order,
\* the reverse, and for more than two futures the first one last
Orders(n) ==
  { [k \in 1..n |-> k], [k \in 1..n |-> n + 1 - k],
    [k \in 1..n |-> IF k = n THEN 1 ELSE k + 1] }

\* as_completed yields the futures in the order of submission
as_completed_submitted(fin, e, flip) == [k \in 1..Len(fin) |-> k]

\* line 835, as_completed(future_to_article): the futures that have finished
\* when it is called are yielded first, in the iteration order of a set
\* (here: their finishing order, or with flip its reverse), then the others
\* as they finish
as_completed(fin, e, flip) ==
  [k \in 1..Len(fin) |-> IF k <= e /\ flip THEN fin[e + 1 - k] ELSE fin[k]]

\* the numbers of workers that may have finished when as_completed is
\* called: none, or in a short batch all
Earlies(n) == IF n <= ShortBatch THEN {0, n} ELSE {0}

\* with results_lock: entered without taking the lock
AcquireSkipped(lock) == lock

\* with results_lock (lines 839, 850): the lock is taken
Acquire(lock) == TRUE

\* lines 758-797.  calls: the calls of extract_info_with_ai made
parse_single_article(article) ==
  IF SkipNoContent(article.content) THEN
    [act |-> "return", result |-> NewsResult(article, _empty_result), calls |-> 0]
  ELSE IF ~(Sized(article.extracted.quotes) /\ Sized(article.extracted.speakers)) THEN
    \* lines 792-793: len() of a number raises TypeError
    [act |-> "raise", result |-> NewsResult(article, _empty_result), calls |-> 1]
  ELSE
    [act |-> "return", result |-> NewsResult(article, article.extracted), calls |-> 1]

\* a result without quotes dropped from the output
news_rows_drop_empty(res, whitelist) ==
  [k \in 1..Len(Items(res.quotes)) |->
     LET spoke_person ==
           IF k - 1 < Len(Items(res.speakers)) THEN Items(res.speakers)[k] ELSE <<>>
     IN Row(res, Items(res.quotes)[k], spoke_person,
            Or(res.province, JStr(<<>>)).str, Or(res.city, JStr(<<>>)).str,
            match_speaker(spoke_person, whitelist))]

\* a speaker index out of range answered with the last speaker
news_rows_last_speaker(res, whitelist) ==
  IF ~Truthy(res.quotes) THEN
    << Row(res, <<>>, <<>>, Or(res.province, JStr(<<>>)).str,
           Or(res.city, JStr(<<>>)).str, NoMatch) >>
  ELSE
    [k \in 1..Len(Items(res.quotes)) |->
       LET spoke_person ==
             IF k - 1 < Len(Items(res.speakers)) THEN Items(res.speakers)[k]
             ELSE IF Items(res.speakers) = <<>> THEN <<>>
             ELSE Items(res.speakers)[Len(Items(res.speakers))]
       IN Row(res, Items(res.quotes)[k], spoke_person,
              Or(res.province, JStr(<<>>)).str, Or(res.city, JStr(<<>>)).str,
              match_speaker(spoke_person, whitelist))]

\* save_parsed_csv, lines 708-746: the rows written for one result
news_rows(res, whitelist) ==
  IF ~Truthy(res.quotes) THEN
    << Row(res, <<>>, <<>>, Or(res.province, JStr(<<>>)).str,
           Or(res.city, JStr(<<>>)).str, NoMatch) >>
  ELSE
    [k \in 1..Len(Items(res.quotes)) |->
       LET spoke_person ==
             IF k - 1 < Len(Items(res.speakers)) THEN Items(res.speakers)[k] ELSE <<>>
       IN Row(res, Items(res.quotes)[k], spoke_person,
              Or(res.province, JStr(<<>>)).str, Or(res.city, JStr(<<>>)).str,
              match_speaker(spoke_person, whitelist))]

\* save_parsed_csv, lines 707-746: for result in results, from the lo-th to
\* the hi-th of them (the rows of the two halves, one after the other)
RECURSIVE news_write_rows(_, _, _, _)
news_write_rows(rs, whitelist, lo, hi) ==
  IF lo > hi THEN <<>>
  ELSE IF lo = hi THEN news_rows(rs[lo], whitelist)
  ELSE news_write_rows(rs, whitelist, lo, (lo + hi) \div 2)
         \o news_write_rows(rs, whitelist, (lo + hi) \div 2 + 1, hi)

\* save_parsed_csv of parse_news.py, lines 683-753
news_save_parsed_csv(rs, whitelist) == news_write_rows(rs, whitelist, 1, Len(rs))

\* save_checkpoint_to_gcs, lines 610-642: the rows written for one result
checkpoint_rows(res, whitelist) ==
  IF ~Truthy(res.quotes) THEN
    << Row(res, <<>>, <<>>, Or(res.province, JStr(<<>>)).str,
           Or(res.city, JStr(<<>>)).str, NoMatch) >>
  ELSE
    [k \in 1..Len(Items(res.quotes)) |->
       LET spoke_person ==
             IF k - 1 < Len(Items(res.speakers)) THEN Items(res.speakers)[k] ELSE <<>>
       IN Row(res, Items(res.quotes)[k], spoke_person,
              Or(res.province, JStr(<<>>)).str, Or(res.city, JStr(<<>>)).str,
              match_speaker(spoke_person, whitelist))]

\* save_checkpoint_to_gcs, lines 609-642: for result in results, from the
\* lo-th to the hi-th of them
RECURSIVE checkpoint_write_rows(_, _, _, _)
checkpoint_write_rows(rs, whitelist, lo, hi) ==
  IF lo > hi THEN <<>>
  ELSE IF lo = hi THEN checkpoint_rows(rs[lo], whitelist)
  ELSE checkpoint_write_rows(rs, whitelist, lo, (lo + hi) \div 2)
         \o checkpoint_write_rows(rs, whitelist, (lo + hi) \div 2 + 1, hi)

\* save_checkpoint_to_gcs, lines 576-654: the checkpoint written, or none when
\* there is no client (lines 579-582)
save_checkpoint_to_gcs(rs, client, checkpoint_num, whitelist) ==
  [num |-> checkpoint_num, size |-> Len(rs), uploaded |-> client,
   rows |-> IF client THEN checkpoint_write_rows(rs, whitelist, 1, Len(rs)) ELSE <<>>]

\* results.append(result) put the result in front
Inserted(rs, r) == <<r>> \o rs

\* results.append(result), lines 813, 840, 851
Appended(rs, r) == Append(rs, r)

\* the whitelist handed on: None and [] make match_speaker return no match
Whitelist == IF roster THEN WHITELIST ELSE <<>>

\* lines 816, 844: the condition of the checkpoint
CheckpointDue(n) == n % CHECKPOINT_EVERY = 0 /\ cloud /\ roster

\* lines 816-819, 844-847: the checkpoints after n items, with rs the results
Checkpointed(n, rs) ==
  IF CheckpointDue(n)
    THEN Append(checkpoints,
                save_checkpoint_to_gcs(rs, gcs_ok, n \div CHECKPOINT_EVERY, Whitelist))
    ELSE checkpoints

\* the configurations of a run: cloud mode with and without a storage
\* client, local mode, and batch_parse called without a whitelist
Modes ==
  { <<TRUE, TRUE, TRUE>>, <<TRUE, TRUE, FALSE>>, <<FALSE, TRUE, TRUE>>,
    <<TRUE, FALSE, TRUE>> }

InitParse ==
  /\ articles \in ShortBatches \cup LongBatches
  /\ threads \in {1, 4}
  /\ \E m \in Modes : cloud = m[1] /\ roster = m[2] /\ gcs_ok = m[3]
  /\ finish \in IF threads = 1 THEN {[k \in 1..Len(articles) |-> k]}
                ELSE Orders(Len(articles))
  /\ early \in IF threads = 1 THEN {0} ELSE Earlies(Len(articles))
  /\ order \in { as_completed(finish, early, flip) : flip \in BOOLEAN }
  /\ results_lock = FALSE
  /\ bp_pc = "start"
  /\ bp_i = 0
  /\ results = <<>>
  /\ completed = 0
  /\ checkpoints = <<>>
  /\ csv_rows = <<>>
  /\ extract_calls = 0
  /\ bp_sleeps = 0

\* stage 2 is not in use
IdleParse ==
  /\ articles = <<>>
  /\ threads = 1
  /\ cloud = FALSE
  /\ roster = FALSE
  /\ gcs_ok = FALSE
  /\ order = <<>>
  /\ finish = <<>>
  /\ early = 0
  /\ results_lock = FALSE
  /\ bp_pc = "idle"
  /\ bp_i = 0
  /\ results = <<>>
  /\ completed = 0
  /\ checkpoints = <<>>
  /\ csv_rows = <<>>
  /\ extract_calls = 0
  /\ bp_sleeps = 0

\* lines 801-809 and 826-832: the path is chosen, the tasks are submitted
BatchStart ==
  /\ bp_pc = "start"
  /\ bp_pc' = IF articles = <<>> THEN "returned"
              ELSE IF threads = 1 THEN "loop" ELSE "pool"
  /\ UNCHANGED <<articles, threads, cloud, roster, gcs_ok, order, finish, early,
                 results_lock, bp_i, results, completed, checkpoints, csv_rows,
                 extract_calls, bp_sleeps>>
  /\ UNCHANGED <<scrapeVars, extractVars, batchVars, matchVars>>

\* lines 811-823: one iteration of the single-threaded loop, and the return
\* after the last
ParseNext ==
  /\ bp_pc = "loop"
  /\ bp_i < Len(articles)
  /\ \E r \in {parse_single_article(articles[bp_i + 1])} :
       /\ extract_calls' = extract_calls + r.calls
       /\ IF r.act = "raise"
            THEN /\ bp_pc' = "crashed"
                 /\ UNCHANGED <<bp_i, results, checkpoints, bp_sleeps>>
            ELSE /\ bp_i' = bp_i + 1
                 /\ results' = Appended(results, r.result)
                 /\ checkpoints' = Checkpointed(bp_i + 1, Appended(results, r.result))
                 /\ bp_sleeps' =
                      IF bp_i + 1 < Len(articles) THEN bp_sleeps + 1 ELSE bp_sleeps
                 /\ bp_pc' = IF bp_i + 1 < Len(articles) THEN "loop" ELSE "returned"
  /\ UNCHANGED <<articles, threads, cloud, roster, gcs_ok, order, finish, early,
                 results_lock, completed, csv_rows>>
  /\ UNCHANGED <<scrapeVars, extractVars, batchVars, matchVars>>

\* the article of the future that as_completed yields next
Yielded == articles[order[bp_i + 1]]

\* lines 835-839 and 848-850: as_completed yields the next future,
\* future.result() returns or raises, and results_lock is taken
Collect ==
  /\ bp_pc = "pool"
  /\ bp_i < Len(articles)
  /\ extract_calls' = extract_calls + parse_single_article(Yielded).calls
  /\ results_lock' = Acquire(results_lock)
  /\ bp_pc' = "locked"
  /\ UNCHANGED <<articles, threads, cloud, roster, gcs_ok, order, finish, early,
                 bp_i, results, completed, checkpoints, csv_rows, bp_sleeps>>
  /\ UNCHANGED <<scrapeVars, extractVars, batchVars, matchVars>>

\* lines 840-847 and 851-859: the body of with results_lock, the release of
\* the lock, and the return after the last future
Critical ==
  /\ bp_pc = "locked"
  /\ \E r \in {parse_single_article(Yielded)} :
       IF r.act = "raise"
         THEN /\ results' = Appended(results, NewsResult(Yielded, _empty_result))
              /\ UNCHANGED <<completed, checkpoints>>
         ELSE /\ results' = Appended(results, r.result)
              /\ completed' = completed + 1
              /\ checkpoints' =
                   Checkpointed(completed + 1, Appended(results, r.result))
  /\ results_lock' = FALSE
  /\ bp_i' = bp_i + 1
  /\ bp_pc' = IF bp_i + 1 < Len(articles) THEN "pool" ELSE "returned"
  /\ UNCHANGED <<articles, threads, cloud, roster, gcs_ok, order, finish, early,
                 csv_rows, extract_calls, bp_sleeps>>
  /\ UNCHANGED <<scrapeVars, extractVars, batchVars, matchVars>>

\* main, lines 937-940: save_parsed_csv(results, input_filename, whitelist)
SaveCsv ==
  /\ bp_pc = "returned"
  /\ csv_rows' = news_save_parsed_csv(results, WHITELIST)
  /\ bp_pc' = "saved"
  /\ UNCHANGED <<articles, threads, cloud, roster, gcs_ok, order, finish, early,
                 results_lock, bp_i, results, completed, checkpoints,
                 extract_calls, bp_sleeps>>
  /\ UNCHANGED <<scrapeVars, extractVars, batchVars, matchVars>>

NextParse == BatchStart \/ ParseNext \/ Collect \/ Critical \/ SaveCsv

(***************************************************************************)
(* Stage 1 on a batch of URLs: batch_scrape and the save of the main       *)
(* script, src/extract_news.py lines 516-580 and 803-810.  Each record of  *)
(* the input carries, in the field scrape, what scrape_all_pages returns   *)
(* for its URL: None, or the record of an article, whose content is the    *)
(* join of at least one non-empty page (lines 505-511).                    *)
(***************************************************************************)
\* scrape_all_pages returned None (line 511)
NoArticle == [none |-> TRUE, content |-> <<>>, method |-> ""]

\* scrape_all_pages returned extracted_data (lines 506-509)
AnArticle == [none |-> FALSE, content |-> <<"text">>, method |-> "diffbot"]

ScrapeOutcomes == {NoArticle, AnArticle}

\* one record of the input feed, {id, date, url}, with the outcome of its scrape
UrlData(id, outcome) == [id |-> id, date |-> "2025-01-01", url |-> <<"https://news/", id>>, scrape |-> outcome]

\* lines 546 and 565 guarded by line 545: only a success is recorded
RecordedIfSuccess(rs, r) == IF r.success THEN Append(rs, r) ELSE rs

\* results.append(...), lines 546 and 565
Recorded(rs, r) == Append(rs, r)

\* line 545: if article_data and article_data['content']
HasContent(article_data) == ~article_data.none /\ article_data.content # <<>>

\* lines 545-573: the result of one record; a key the dict lacks is ""
scrape_result(url_data, article_data) ==
  IF HasContent(article_data)
    THEN [success |-> TRUE, id |-> url_data.id, date_article |-> url_data.date,
          url |-> url_data.url, content |-> article_data.content,
          method |-> article_data.method, error |-> ""]
    ELSE [success |-> FALSE, id |-> url_data.id, date_article |-> url_data.date,
          url |-> url_data.url, content |-> <<>>,
          method |-> "", error |-> "All methods failed"]

\* lines 670-677, 719-726: the row written for a result
feed_row(r) == [id |-> r.id, date_article |-> r.date_article, source |-> r.url, content |-> r.content]

\* every result written to the feed, the failed ones included
IsAnyResult(r) == TRUE

\* line 669, 718: if result['success']
IsSuccess(r) == r.success

\* save_to_gcs 665-680, save_results_csv 709-729: one row per success
feed_rows(rs) == [k \in 1..Len(SelectSeq(rs, IsSuccess)) |-> feed_row(SelectSeq(rs, IsSuccess)[k])]

\* the input feeds of up to ShortBatch URLs, every mix of outcomes
ShortUrlLists ==
  UNION { { [k \in 1..n |-> UrlData(k, f[k])] : f \in [1..n -> ScrapeOutcomes] } :
            n \in 1..ShortBatch }

\* the long input feeds: all scraped, but for the URL at position p if any
LongUrlLists ==
  { [k \in 1..n |-> UrlData(k, IF k = p THEN NoArticle ELSE AnArticle)] :
      n \in {CHECKPOINT_EVERY, LongBatch}, p \in {0, 1, CHECKPOINT_EVERY} }

\* the main script has read at least one URL (lines 799-801)
InitBatch ==
  /\ url_data_list \in ShortUrlLists \cup LongUrlLists
  /\ bs_cloud \in BOOLEAN
  /\ bs_pc = "loop"
  /\ bs_results = <<>>
  /\ bs_checkpoints = <<>>
  /\ bs_sleeps = 0
  /\ feed = <<>>

\* the record the loop is at
CurrentUrl == url_data_list[Len(bs_results) + 1]

\* lines 538-578: one turn of the loop over the records; the turn of the last
\* record is followed by the return of line 580
ScrapeUrl ==
  /\ bs_pc = "loop"
  /\ Len(bs_results) < Len(url_data_list)
  /\ bs_results' = Recorded(bs_results, scrape_result(CurrentUrl, CurrentUrl.scrape))
  /\ bs_sleeps' = IF Len(bs_results) + 1 < Len(url_data_list) THEN bs_sleeps + 1 ELSE bs_sleeps
  /\ bs_pc' = IF Len(bs_results) + 1 < Len(url_data_list) THEN "loop" ELSE "returned"
  /\ UNCHANGED <<url_data_list, bs_checkpoints, feed, bs_cloud>>
  /\ UNCHANGED <<scrapeVars, extractVars, parseVars, matchVars>>

\* lines 806-810: save_results_csv or save_to_gcs, which write the same rows
SaveFeed ==
  /\ bs_pc = "returned"
  /\ feed' = feed_rows(bs_results)
  /\ bs_pc' = "saved"
  /\ UNCHANGED <<url_data_list, bs_results, bs_checkpoints, bs_sleeps, bs_cloud>>
  /\ UNCHANGED <<scrapeVars, extractVars, parseVars, matchVars>>

NextBatch == ScrapeUrl \/ SaveFeed

\* stage 1's batch is not in use
IdleBatch ==
  /\ url_data_list = <<>>
  /\ bs_pc = "idle"
  /\ bs_results = <<>>
  /\ bs_checkpoints = <<>>
  /\ bs_sleeps = 0
  /\ feed = <<>>
  /\ bs_cloud = FALSE

(***************************************************************************)
(* match_speaker on one speaker text and one roster, parse_news.py lines   *)
(* 546-570, the roster being what load_whitelist makes of the rows of the  *)
(* whitelist file (lines 527-536)                                          *)
(***************************************************************************)
\* lines 530-535: the entry made of one row of the whitelist file
load_row(nama, jabatan, category, alias) ==
  Entry(str_strip(nama), str_strip(jabatan), str_strip(category), lower(str_strip(alias)))

\* rows of a whitelist file
RowSekda == load_row(<<"P", "a", "k", " ", "S">>, <<"s", "e", "k", "d", "a">>, <<"g", "o", "v">>, <<"S", "e", "k", "d", "a", " ">>)
RowZainal == load_row(<<"Z", " ", "A">>, <<"k", "a">>, <<"g", "o", "v">>, <<"Z", "a", "i", "n", "a", "l", ",", " ", "Z", "A">>)
RowZa == load_row(<<"Z", "a">>, <<"k", "a">>, <<"p", "r", "v">>, <<" ", "z", "a">>)
RowNoAlias == load_row(<<"K">>, <<"k", "a">>, <<"g", "o", "v">>, <<>>)
RowCommas == load_row(<<"J">>, <<"k", "a">>, <<"g", "o", "v">>, <<",", " ", ",">>)

\* the rosters: none, one entry, two or three entries in either order
Rosters ==
  { <<>>, <<RowSekda>>, <<RowZainal>>, <<RowNoAlias>>, <<RowCommas>>,
    <<RowSekda, RowZainal>>, <<RowZainal, RowSekda>>, <<RowZa, RowZainal>>,
    <<RowZainal, RowZa>>, <<RowNoAlias, RowCommas, RowZa>> }

\* the speaker texts
SpeakerTexts ==
  { <<>>, <<" ">>, Zainal, <<"z", "a", "i", "n", "a", "l">>, <<"Z", "A">>,
    <<"Z", "a", "i", "n", "a", "l", " ", "A", ".">>, <<" ", "S", "e", "k", "d", "a", "\n">>,
    <<"k", "d">>, <<"l", ",", " ", "z">>, <<"K">>, <<",">>, <<"P", "a", "k">> }

InitMatch ==
  /\ ms_spoke_person \in SpeakerTexts
  /\ ms_whitelist \in Rosters
  /\ ms_pc = "call"
  /\ ms_entry = NoMatch

\* match_speaker is not in use
IdleMatch ==
  /\ ms_spoke_person = <<>>
  /\ ms_whitelist = <<>>
  /\ ms_pc = "idle"
  /\ ms_entry = NoMatch

\* the call of match_speaker, lines 546-570
MatchSpeaker ==
  /\ ms_pc = "call"
  /\ ms_entry' = match_speaker(ms_spoke_person, ms_whitelist)
  /\ ms_pc' = "returned"
  /\ UNCHANGED <<ms_spoke_person, ms_whitelist>>
  /\ UNCHANGED <<scrapeVars, extractVars, parseVars, batchVars>>

NextMatch == MatchSpeaker

vars == <<scrapeVars, extractVars, parseVars, batchVars, matchVars>>

\* scrape_all_pages on one URL
Init == InitScrape /\ IdleExtract /\ IdleParse /\ IdleBatch /\ IdleMatch

Spec == Init /\ [][NextScrape]_vars

\* the scraper is not in use
IdleScrape == InitScrape /\ ~Contains(url, "tribunnews.com")

\* the extractor on one article
InitE == IdleScrape /\ InitExtract /\ IdleParse /\ IdleBatch /\ IdleMatch

SpecExtract == InitE /\ [][NextExtract]_vars

\* stage 2 on one batch of articles
InitP == IdleScrape /\ IdleExtract /\ InitParse /\ IdleBatch /\ IdleMatch

SpecParse == InitP /\ [][NextParse]_vars

\* stage 1 on one batch of URLs
InitB == IdleScrape /\ IdleExtract /\ IdleParse /\ InitBatch /\ IdleMatch

SpecBatch == InitB /\ [][NextBatch]_vars

\* match_speaker on one speaker text and one roster
InitM == IdleScrape /\ IdleExtract /\ IdleParse /\ IdleBatch /\ InitMatch

SpecMatch == InitM /\ [][NextMatch]_vars

\* stage 1 in local mode: scrape_all_pages on one URL, and batch_scrape on
\* a feed of ShortBatch records
InitS1 == IdleScrape /\ IdleExtract /\ IdleParse /\ InitBatch /\ IdleMatch /\ Len(url_data_list) = ShortBatch /\ ~bs_cloud

NextS1 == NextScrape \/ NextBatch

SpecStageOne == InitS1 /\ [][NextS1]_vars

\* the article of parse_self_content and one of the batch have no content
Blanks ==
  /\ variant = "parse_self_content"
  /\ provider = "gemini"
  /\ max_retries = AI_MAX_RETRIES
  /\ ex_content = <<" ", "\n">>
  /\ \E k \in 1..Len(articles) : NoContent(articles[k].content)

\* articles without content: a stage-2 batch that holds one, and
\* parse_self_content's batch_parse on one
InitNC == IdleScrape /\ InitExtract /\ InitParse /\ IdleBatch /\ IdleMatch /\ Blanks

NextNC == NextParse \/ SkipArticle \/ SaveParsedCsv

SpecNoContent == InitNC /\ [][NextNC]_vars

(***************************************************************************)
(* Properties of scrape_all_pages                                          *)
(***************************************************************************)
\* the primary provider is done with the page it was last called for
PageDone == pageCalls > 0 /\ (pc # "diffbot" \/ attempt = 0)

\* the bodies of the accepted pages, merged from the left
RECURSIVE Merged(_, _)
Merged(acc, n) ==
  IF n = 0 THEN <<>>
  ELSE IF n = 1 THEN acc[1][2]
  ELSE Merged(acc, n - 1) \o PAGE_BREAK \o acc[n][2]

\* the accepted pages are pages 1..n, in order
InPageOrder(acc) == \A k \in 1..Len(acc) : acc[k][1] = k

\* C1: a page on which every primary answer is Forbidden gets exactly
\* MAX_RETRIES + 1 = 4 primary calls, and on page 1 the fallback provider is
\* called only once those 4 calls have been made (never while page 1 is still
\* with the primary provider).
C1_RetryBound ==
  /\ (PageDone /\ onlyForbidden) => pageCalls = MAX_RETRIES + 1
  /\ (pc = "trafilatura" /\ onlyForbidden) =>
       (i = 1 /\ pageCalls = MAX_RETRIES + 1 /\ trafCalls = 0)
  /\ (pc = "diffbot" /\ i = 1) => trafCalls = 0

C1_Witness ==
  /\ trafCalls = 1
  /\ i = 1
  /\ onlyForbidden
  /\ pageCalls = MAX_RETRIES + 1
  /\ result.error = "FORBIDDEN"

\* C2: when the final primary outcome for page 1 is a failure, the fallback
\* provider is called exactly once; its output is accepted as page 1 if and
\* only if its body is longer than 100 characters, and otherwise the scrape
\* returns no record.
C2_FallbackOnce ==
  /\ [][(pc = "diffbot" /\ i = 1 /\ result'.error \notin {NONE, "FORBIDDEN_RETRY"})
         => (pc' = "trafilatura" /\ trafCalls' = 0 /\ returned' = "pending")]_scrapeVars
  /\ [][pc = "trafilatura"
         => /\ trafCalls' = 1
            /\ IF Len(trafBody') > MIN_CONTENT_LEN
                 THEN /\ accepted' = << <<1, trafBody', "trafilatura">> >>
                      /\ returned' = "pending"
                 ELSE /\ accepted' = <<>>
                      /\ pc' = "returned"
                      /\ returned' = "None"]_scrapeVars
  /\ [][trafCalls = 1 => trafCalls' = 1]_scrapeVars

C2_Witness ==
  /\ trafCalls = 1
  /\ result.error = "SERVER_ERROR"
  /\ i = 1
  /\ Len(trafBody) = MIN_CONTENT_LEN
  /\ returned = "None"

\* C3: when pages 1..i-1 were accepted and page i > 1 ends in a failure, the
\* record returned consists of exactly pages 1..i-1: pages_scraped = i-1 and
\* the body is those bodies joined by the page-break marker; a long body on
\* page 1 followed by NO_CONTENT on page 2 gives pages_scraped = 1 and the
\* page-1 body.
C3_LaterPageFailure ==
  (pc = "returned" /\ i > 1 /\ result.error # NONE) =>
     /\ stop = "error"
     /\ returned = "record"
     /\ Len(accepted) = i - 1
     /\ InPageOrder(accepted)
     /\ extracted_data.pages_scraped = i - 1
     /\ extracted_data.content = Merged(accepted, i - 1)
     /\ (i = 2 /\ accepted[1][2] = BodyX) => extracted_data.content = BodyX

C3_Witness ==
  /\ pc = "returned"
  /\ i = 2
  /\ result.error = "NO_CONTENT"
  /\ accepted = << <<1, BodyX, "diffbot">> >>
  /\ extracted_data.pages_scraped = 1
  /\ extracted_data.content = BodyX

\* C4: a fetched page body identical to the body of the immediately preceding
\* accepted page stops pagination at that page: nothing more is fetched, and
\* the duplicate is neither in the merged body nor counted in pages_scraped.
C4_DuplicateStops ==
  /\ \A k \in 1..(Len(accepted) - 1) : accepted[k][2] # accepted[k + 1][2]
  /\ (PageDone /\ result.error = NONE /\ accepted # <<>> /\ pc = "returned"
        /\ Len(accepted) < i
        /\ result.content = accepted[Len(accepted)][2]) =>
       /\ stop = "duplicate"
       /\ ~ENABLED NextScrape
       /\ Len(accepted) = i - 1
       /\ extracted_data.pages_scraped = i - 1
       /\ extracted_data.content = Merged(accepted, i - 1)
  /\ stop = "duplicate" =>
       /\ pc = "returned"
       /\ result.content = accepted[Len(accepted)][2]
       /\ Len(accepted) = i - 1

C4_Witness ==
  /\ stop = "duplicate"
  /\ i = 3
  /\ extracted_data.pages_scraped = 2
  /\ result.content = BodyY

\* C5: scrape_all_pages returns a record if and only if at least one page
\* was accepted; the record has pages_scraped = the number of accepted pages,
\* between 1 and MAX_PAGES, and a body equal to the accepted bodies in page
\* order joined by the page-break marker; with no accepted page it returns
\* None.
C5_RecordIffAccepted ==
  /\ (pc = "returned") <=> (returned # "pending")
  /\ pc = "returned" =>
       /\ (returned = "record") <=> (accepted # <<>>)
       /\ (returned = "None") <=> (accepted = <<>>)
       /\ returned = "record" =>
            /\ extracted_data.pages_scraped = Len(accepted)
            /\ extracted_data.pages_scraped \in 1..MAX_PAGES
            /\ InPageOrder(accepted)
            /\ extracted_data.content = Merged(accepted, Len(accepted))

C5_Witness ==
  /\ returned = "record"
  /\ extracted_data.pages_scraped = MAX_PAGES
  /\ Len(extracted_data.content) > 4 * Len(PAGE_BREAK)

(***************************************************************************)
(* Properties of the extractor                                             *)
(***************************************************************************)
\* every provider call so far did `what`
AllOutcomes(what) ==
  outcomes # <<>> /\ \A k \in 1..Len(outcomes) : outcomes[k] = what

\* the outcomes of a provider call that leave the attempt without a result
Failures ==
  {"raise", "falsy", "no_candidates", "bad_finish", "empty_text", "malformed"}

\* C6: in the bounded-time extractor, when the provider call exceeds the
\* timeout on every attempt, the result returned has province and city
\* "ERROR TIMEOUT" and error = timeout, and save_parsed_csv writes exactly
\* one row for the article.
C6_TimeoutSentinel ==
  (variant = "parse_self_content" /\ AllOutcomes("hang")
     /\ ex_pc \in {"done", "saved"}) =>
    /\ ex_result.province = JStr(ERROR_TIMEOUT)
    /\ ex_result.city = JStr(ERROR_TIMEOUT)
    /\ ex_result.error = "timeout"
    /\ ex_pc = "saved" => Len(rows) = 1

\* C7: for every sequence of provider outcomes and every max_retries >= 0,
\* parse_news.extract_info_with_ai never lets an exception out and returns a
\* result with the four keys quotes, speakers, province, city; when every
\* attempt failed (or none was made) the result is the canonical empty result.
C7_NeverRaises ==
  variant = "parse_news" =>
    /\ ex_pc \in {"start", "call", "done"}
    /\ ex_pc = "call" => ex_attempt < max_retries /\ providerCalls = ex_attempt
    /\ ex_pc = "done" =>
         /\ ex_result.keys = Keys
         /\ ex_result.error = ""
         /\ providerCalls <= max_retries
         /\ (\A k \in 1..Len(outcomes) : outcomes[k] \in Failures)
              => ex_result = _empty_result

C7_Witness ==
  /\ variant = "parse_news"
  /\ provider = "gemini"
  /\ max_retries = AI_MAX_RETRIES
  /\ ex_pc = "done"
  /\ outcomes = <<"raise", "falsy", "malformed">>
  /\ ex_result = _empty_result

\* C8: in _extract_with_gemini a response without candidates is retried: the
\* empty result is returned for it only once the provider has been called
\* max_retries times.
C8_NoCandidatesRetried ==
  (variant = "parse_news" /\ provider = "gemini" /\ ex_pc = "done"
     /\ outcomes # <<>> /\ outcomes[Len(outcomes)] = "no_candidates") =>
    providerCalls = max_retries

\* C9: in parse_news, when every provider call raises, the provider is called
\* exactly max_retries times, a backoff sleep is made between consecutive
\* calls and none after the last, and then the empty result is returned.
C9_AllRaise ==
  (variant = "parse_news" /\ AllOutcomes("raise")) =>
    /\ ex_pc \in {"call", "done"}
    /\ ex_pc = "call" =>
         /\ providerCalls < max_retries
         /\ Len(sleeps) = providerCalls
    /\ ex_pc = "done" =>
         /\ providerCalls = max_retries
         /\ Len(sleeps) = max_retries - 1
         /\ ex_result = _empty_result

C9_Witness ==
  /\ variant = "parse_news"
  /\ max_retries = AI_MAX_RETRIES
  /\ AllOutcomes("raise")
  /\ ex_pc = "done"
  /\ providerCalls = AI_MAX_RETRIES
  /\ Len(sleeps) = AI_MAX_RETRIES - 1
  /\ ex_result = _empty_result

\* C10 as stated: the backoff slept before the k-th retry is 2 s doubled each
\* time: 2 s, 4 s, 8 s.
C10_BackoffBase2 ==
  variant = "parse_news" =>
    \A k \in 1..Len(sleeps) : sleeps[k] = Pow2(k)

\* C10, amended: in parse_news every retry is preceded by one backoff sleep,
\* and the sleep before the k-th retry is 2^(k-1) seconds: 1 s, 2 s, 4 s.
C10_BackoffBase1 ==
  variant = "parse_news" =>
    /\ Len(sleeps) = ex_attempt
    /\ \A k \in 1..Len(sleeps) : sleeps[k] = Pow2(k - 1)

C10_Witness ==
  /\ variant = "parse_news"
  /\ ex_pc = "call"
  /\ ex_attempt = 3
  /\ sleeps = <<1, 2, 4>>

\* the last provider call, for the properties of what is made of its text
LastOutcome == IF outcomes = <<>> THEN "" ELSE outcomes[Len(outcomes)]

\* C11: in _extract_with_gemini, when the first candidate's finish reason is
\* not STOP the empty result is returned at once: the call was the last one,
\* no sleep follows it, whatever attempts remain.
C11_BadFinishReturns ==
  (variant = "parse_news" /\ provider = "gemini" /\ LastOutcome = "bad_finish") =>
    /\ ex_pc = "done"
    /\ ex_result = _empty_result
    /\ Len(sleeps) = providerCalls - 1
    /\ ~ENABLED NextExtract

C11_Witness ==
  /\ variant = "parse_news"
  /\ provider = "gemini"
  /\ max_retries = AI_MAX_RETRIES
  /\ providerCalls = 1
  /\ LastOutcome = "bad_finish"
  /\ last_answer.finish_reason = 2
  /\ ex_pc = "done"
  /\ sleeps = <<>>

\* a text that is one JSON document between two fences, with or without the
\* word json after the first fence, and the text between the fences
Unwrap(text) ==
  strip(SubSeq(text, IF text[2] = JSONWORD THEN 3 ELSE 2, Len(text) - 1))

Wrapped(text) ==
  /\ Len(text) >= 3
  /\ text[1] = FENCE
  /\ text[Len(text)] = FENCE
  /\ Len(Unwrap(text)) = 1
  /\ Unwrap(text)[1].k = "doc"

\* a text that is one JSON document and white space
Bare(text) == Len(strip(text)) = 1 /\ strip(text)[1].k = "doc"

\* the provider's text went to _parse_ai_response and its result was returned
Parsed ==
  /\ variant = "parse_news"
  /\ ex_pc = "done"
  /\ LastOutcome \in {"text", "malformed"}

\* C12: _parse_ai_response on a JSON object wrapped in a code fence returns
\* what it returns on the bare object; on a text that is not JSON, or JSON
\* that is not an object, it returns the empty result; in both cases the
\* provider is not called again.
C12_FenceTransparent ==
  Parsed =>
    /\ ~ENABLED NextExtract
    /\ (Wrapped(last_answer.text) /\ Unwrap(last_answer.text)[1].doc.t = "object")
         => ex_result = _parse_ai_response(Unwrap(last_answer.text))
    /\ (Wrapped(last_answer.text) /\ Unwrap(last_answer.text)[1].doc.t # "object")
         => ex_result = _empty_result
    /\ (Bare(last_answer.text) /\ strip(last_answer.text)[1].doc.t # "object")
         => ex_result = _empty_result
    /\ (~Wrapped(last_answer.text) /\ ~Bare(last_answer.text))
         => ex_result = _empty_result

\* the JSON values Python takes as false
Falsy(v) == v \in {JNull, JStr(<<>>), JArr(<<>>), JNum(<<"0">>)}

\* the provider's text was one bare JSON object, parsed and returned
ParsedObject ==
  /\ Parsed
  /\ Len(last_answer.text) = 1
  /\ last_answer.text[1].k = "doc"
  /\ last_answer.text[1].doc.t = "object"

\* C13 as stated: quotes and speakers that are missing or null become empty
\* sequences, province and city that are missing or falsy become null, every
\* other value is returned unchanged, and the keys are the four keys.
C13_CoerceNullOnly ==
  ParsedObject =>
    \E d \in {last_answer.text[1].doc} :
      /\ ex_result.keys = Keys
      /\ ex_result.quotes =
           IF "quotes" \notin d.present \/ d.quotes = JNull
             THEN JArr(<<>>) ELSE d.quotes
      /\ ex_result.speakers =
           IF "speakers" \notin d.present \/ d.speakers = JNull
             THEN JArr(<<>>) ELSE d.speakers
      /\ ex_result.province =
           IF "province" \notin d.present \/ Falsy(d.province)
             THEN JNull ELSE d.province
      /\ ex_result.city =
           IF "city" \notin d.present \/ Falsy(d.city) THEN JNull ELSE d.city

\* C13, amended: quotes and speakers that are missing or falsy (null, empty
\* string, 0, empty sequence) become empty sequences, province and city that
\* are missing or falsy become null, every other value is returned unchanged,
\* each field by itself, and the keys are the four keys.
C13_CoerceFalsy ==
  ParsedObject =>
    \E d \in {last_answer.text[1].doc} :
      /\ ex_result.keys = Keys
      /\ ex_result.quotes =
           IF "quotes" \notin d.present \/ Falsy(d.quotes)
             THEN JArr(<<>>) ELSE d.quotes
      /\ ex_result.speakers =
           IF "speakers" \notin d.present \/ Falsy(d.speakers)
             THEN JArr(<<>>) ELSE d.speakers
      /\ ex_result.province =
           IF "province" \notin d.present \/ Falsy(d.province)
             THEN JNull ELSE d.province
      /\ ex_result.city =
           IF "city" \notin d.present \/ Falsy(d.city) THEN JNull ELSE d.city

C13_Witness ==
  /\ ParsedObject
  /\ last_answer.text[1].doc =
       JObject(Keys, JStr(<<>>), JNum(<<"0">>), JStr(Jakarta), JNull)
  /\ ex_result = ResultDict(JArr(<<>>), JArr(<<>>), JStr(Jakarta), JNull)

(***************************************************************************)
(* Properties of stage 2: the flattener and batch_parse                    *)
(***************************************************************************)
\* the rows of R that carry the id
RowsFor(R, id) == SelectSeq(R, LAMBDA r : r.id = id)

\* the text a province or city value is written as
Written(v) == IF v = JNull THEN <<>> ELSE v.str

\* in R, the result res has one row without quote and speaker and with its
\* province and city when it has no quotes, and one row per quote, in quote
\* order, when it has quotes
OneRowPerQuote(R, res) ==
  \E mine \in {RowsFor(R, res.id)} :
    IF Len(Items(res.quotes)) = 0
      THEN /\ Len(mine) = 1
           /\ mine[1].quote = <<>>
           /\ mine[1].spoke_person = <<>>
           /\ mine[1].province = Written(res.province)
           /\ mine[1].city = Written(res.city)
      ELSE /\ Len(mine) = Len(Items(res.quotes))
           /\ \A j \in 1..Len(mine) : mine[j].quote = Items(res.quotes)[j]

\* the last checkpoint was written by the step that led to this state
JustCheckpointed ==
  /\ checkpoints # <<>>
  /\ checkpoints[Len(checkpoints)].uploaded
  /\ checkpoints[Len(checkpoints)].size = Len(results)

\* C14: save_parsed_csv and save_checkpoint_to_gcs write, for every result,
\* exactly one row when quotes is empty (empty quote and speaker, province
\* and city of the result) and exactly N rows, one per quote in quote order,
\* when quotes has N > 0 entries.
C14_RowsPerResult ==
  /\ bp_pc = "saved" =>
       \A k \in 1..Len(results) : OneRowPerQuote(csv_rows, results[k])
  /\ JustCheckpointed =>
       \A k \in 1..Len(results) :
         OneRowPerQuote(checkpoints[Len(checkpoints)].rows, results[k])

C14_Witness ==
  /\ bp_pc = "saved"
  /\ Len(results) = 2
  /\ results[1].quotes = JArr(<<>>)
  /\ results[2].quotes = JArr(<<Hi, Hi>>)
  /\ Len(csv_rows) = 3
  /\ csv_rows[1].city = <<>>

\* C15: quotes[i] is paired with speakers[i] when i < len(speakers) and with
\* the empty string otherwise, whatever the two lengths, and the rows are
\* written (no index error); quotes = ["hi"], speakers = [] gives one row
\* with quote "hi" and speaker "".
C15_SpeakerPairing ==
  bp_pc = "saved" =>
    \A k \in 1..Len(results) :
      (results[k].quotes.t = "array" /\ results[k].speakers.t = "array") =>
        \E mine \in {RowsFor(csv_rows, results[k].id)} :
          /\ Len(mine) >= 1
          /\ Len(mine) >= Len(results[k].quotes.items)
          /\ \A j \in 1..Len(results[k].quotes.items) :
               /\ mine[j].quote = results[k].quotes.items[j]
               /\ mine[j].spoke_person =
                    IF j <= Len(results[k].speakers.items)
                      THEN results[k].speakers.items[j] ELSE <<>>

C15_Witness ==
  /\ bp_pc = "saved"
  /\ Len(results) = 2
  /\ results[1].quotes = JArr(<<Hi>>)
  /\ results[1].speakers = JArr(<<>>)
  /\ RowsFor(csv_rows, 1) # <<>>
  /\ csv_rows[1].quote = Hi
  /\ csv_rows[1].spoke_person = <<>>
  /\ results[2].quotes = JArr(<<Hi, Hi>>)
  /\ results[2].speakers = JArr(<<Zainal>>)
  /\ csv_rows[3].spoke_person = <<>>

\* C16: when stage 2 has ended, the output has at least one row with the id
\* of every article of the input, in the single-threaded and in the
\* multi-threaded path, also for articles without content, articles whose
\* extraction returned nothing and articles whose worker raised.
C16_NoArticleDropped ==
  bp_pc \in {"saved", "crashed"} =>
    \A k \in 1..Len(articles) : RowsFor(csv_rows, articles[k].id) # <<>>

\* C18: in cloud mode with a roster, a checkpoint is emitted each time the
\* number of completed items, failed ones included, reaches a multiple of
\* 100: whenever the results collection has reached the size 100 m, a
\* checkpoint of that size has been emitted.
C18_CheckpointEveryHundred ==
  (cloud /\ roster) =>
    \A m \in 1..(Len(results) \div CHECKPOINT_EVERY) :
      \E c \in 1..Len(checkpoints) : checkpoints[c].size = CHECKPOINT_EVERY * m

\* C20: in the single-threaded path the k-th result is the result of the
\* k-th article, and in the output all rows of an article precede all rows of
\* the next article.
C20_InputOrder ==
  threads = 1 =>
    /\ Len(results) = bp_i
    /\ \A k \in 1..Len(results) :
         results[k] = parse_single_article(articles[k]).result
    /\ bp_pc = "saved" =>
         /\ \A j \in 1..(Len(csv_rows) - 1) : csv_rows[j].id <= csv_rows[j + 1].id
         /\ \A k \in 1..Len(articles) : RowsFor(csv_rows, articles[k].id) # <<>>

C20_Witness ==
  /\ threads = 1
  /\ bp_pc = "saved"
  /\ Len(articles) = LongBatch
  /\ results[CHECKPOINT_EVERY].quotes = JArr(<<>>)
  /\ csv_rows[LongBatch].id = LongBatch

\* the ids of the results, in the order of the collection
ResultIds == [k \in 1..Len(results) |-> results[k].id]

\* the multi-threaded path has returned one result per article
OnePerArticle ==
  /\ Len(results) = Len(articles)
  /\ \A a \in 1..Len(articles) :
       Cardinality({k \in 1..Len(results) : results[k].id = articles[a].id}) = 1

\* C21 as stated: in the multi-threaded path the results are in the order in
\* which the workers finish (of two articles, the one whose worker finishes
\* first comes first), and there is exactly one result per article when the
\* batch ends.
C21_CompletionOrder ==
  (threads > 1 /\ bp_pc \in {"returned", "saved"}) =>
    /\ OnePerArticle
    /\ \A k \in 1..Len(results) : results[k].id = articles[finish[k]].id

\* C21, amended: in the multi-threaded path the results are in the order in
\* which as_completed yields the futures, not input order: first the results
\* of the workers that had finished when as_completed was called, in no
\* fixed order among themselves, then the results of the other workers in
\* the order in which they finish; there is exactly one result per article
\* when the batch ends.
C21_YieldOrder ==
  threads > 1 =>
    /\ \A k \in 1..Len(results) :
         IF k <= early
           THEN \E j \in 1..early : results[k].id = articles[finish[j]].id
           ELSE results[k].id = articles[finish[k]].id
    /\ bp_pc \in {"returned", "saved"} => OnePerArticle

\* two workers had finished, the first article's first, when as_completed
\* was called, and the result of the second article was collected first
C21_Witness ==
  /\ threads > 1
  /\ bp_pc = "returned"
  /\ early = 2
  /\ finish = <<1, 2>>
  /\ ResultIds = <<2, 1>>

\* C29: the k-th checkpoint emitted carries the index k, and its snapshot
\* holds the results of exactly 100 k articles, in the single-threaded and in
\* the multi-threaded path.
C29_CheckpointIndex ==
  \A c \in 1..Len(checkpoints) :
    checkpoints[c].uploaded =>
      /\ checkpoints[c].num = c
      /\ checkpoints[c].size = CHECKPOINT_EVERY * c
      /\ Cardinality({ checkpoints[c].rows[j].id : j \in 1..Len(checkpoints[c].rows) })
           = CHECKPOINT_EVERY * c

\* the rows R are the rows of the results rs, and of no other result
SnapshotOf(R, rs) ==
  /\ \A k \in 1..Len(rs) : RowsFor(R, rs[k].id) = checkpoint_rows(rs[k], Whitelist)
  /\ \A j \in 1..Len(R) : \E k \in 1..Len(rs) : R[j].id = rs[k].id

\* C30: in the multi-threaded path every append to results, with the count,
\* the checkpoint check and the checkpoint write that go with it, is made
\* while results_lock is held, one append per step; no result is lost or
\* duplicated, and a checkpoint written holds exactly the results appended
\* up to that point.
C30_AppendUnderLock ==
  /\ [](threads > 1 =>
          /\ Len(results) = bp_i
          /\ \A k \in 1..Len(results) : results[k].id = articles[order[k]].id
          /\ bp_pc \in {"returned", "saved"} => OnePerArticle
          /\ results_lock <=> bp_pc = "locked")
  /\ [][(threads > 1 /\ (results' # results \/ completed' # completed
                            \/ checkpoints' # checkpoints)) =>
          /\ results_lock /\ ~results_lock'
          /\ Len(results') = Len(results) + 1
          /\ SubSeq(results', 1, Len(results)) = results
          /\ checkpoints' # checkpoints =>
               /\ Len(checkpoints') = Len(checkpoints) + 1
               /\ checkpoints'[Len(checkpoints')].size = Len(results')
               /\ checkpoints'[Len(checkpoints')].uploaded =>
                    SnapshotOf(checkpoints'[Len(checkpoints')].rows, results')]_vars

\* the multi-threaded path has written a checkpoint of the hundred results
\* appended so far and has released the lock
C30_Witness ==
  /\ threads > 1
  /\ ~results_lock
  /\ bp_pc \in {"pool", "returned"}
  /\ Len(results) = CHECKPOINT_EVERY
  /\ JustCheckpointed
  /\ Len(checkpoints[1].rows) >= CHECKPOINT_EVERY

(***************************************************************************)
(* Properties of match_speaker                                             *)
(***************************************************************************)
\* the speaker text as it is compared: without case and outer blanks
SpeakerText == str_strip(lower(ms_spoke_person))

\* the aliases of an entry: the non-empty names between the commas
AliasesOf(entry) ==
  { str_strip(a) : a \in { split_comma(entry.alias, <<>>)[j] :
                            j \in 1..Len(split_comma(entry.alias, <<>>)) } } \ {<<>>}

\* the entry has an alias that is in the speaker text or that the speaker
\* text is in
AliasMatches(entry) ==
  \E a \in AliasesOf(entry) : IsIn(a, SpeakerText) \/ IsIn(SpeakerText, a)

\* the first entry of the roster, in roster order, with a matching alias, or
\* the all-empty entry
FirstMatching ==
  IF \E k \in 1..Len(ms_whitelist) : AliasMatches(ms_whitelist[k])
    THEN ms_whitelist[CHOOSE k \in 1..Len(ms_whitelist) :
                        /\ AliasMatches(ms_whitelist[k])
                        /\ \A j \in 1..(k - 1) : ~AliasMatches(ms_whitelist[j])]
    ELSE NoMatch

\* C22: match_speaker returns the first roster entry, in roster order, one
\* of whose aliases is a substring of the speaker text or has the speaker
\* text as a substring, without regard to case; when no entry matches, or the
\* speaker or the roster is empty, it returns the entry of four empty strings.
C22_FirstAliasMatch ==
  ms_pc = "returned" =>
    ms_entry = IF ms_spoke_person = <<>> \/ ms_whitelist = <<>>
                 THEN NoMatch ELSE FirstMatching

\* C23: whenever the first pass of match_speaker finds no match the second
\* pass finds none either, and match_speaker returns what the first pass
\* alone gives.
C23_SecondPassRedundant ==
  (ms_pc = "returned" /\ ms_spoke_person # <<>> /\ ms_whitelist # <<>>) =>
    (FirstPass(SpeakerText, ms_whitelist, 1) = 0 =>
       /\ SecondPass(SpeakerText, ms_whitelist, 1) = 0
       /\ ms_entry = NoMatch)

(***************************************************************************)
(* Properties of batch_scrape                                              *)
(***************************************************************************)
\* the result at position k is the one of the k-th record of the input
ResultOfRecord(k) ==
  /\ bs_results[k].id = url_data_list[k].id
  /\ bs_results[k].url = url_data_list[k].url
  /\ bs_results[k].success = HasContent(url_data_list[k].scrape)
  /\ ~bs_results[k].success => bs_results[k].error = "All methods failed"

C19_StageOneCheckpoints ==
  (bs_cloud /\ Len(bs_results) >= CHECKPOINT_EVERY) => bs_checkpoints # <<>>

(***************************************************************************)
(* Further properties of scrape_with_diffbot and scrape_all_pages          *)
(***************************************************************************)
\* the primary provider has just answered: the step called it
PrimaryCalled == pc = "diffbot" /\ diffbotCalls' = diffbotCalls + 1

\* C24: scrape_with_diffbot never returns an article with an empty body as a
\* success (it answers NO_CONTENT), and after an empty body on page 1 the
\* fallback is called, as after every NO_CONTENT on page 1.
C24_EmptyBodyNoContent ==
  /\ (diffbotCalls > 0 /\ result.error = NONE) => result.content # NoText
  /\ (pc = "returned" /\ i = 1 /\ diffbotCalls > 0 /\ result.content = NoText
        /\ result.error \in {NONE, "NO_CONTENT"}) => trafCalls = 1

\* C25: over any sequence of provider outcomes for one URL the fallback is
\* called at most once and only for page 1.
C25_FallbackPageOne ==
  /\ [](trafCalls <= 1 /\ (pc = "trafilatura" => i = 1 /\ trafCalls = 0))
  /\ [][trafCalls' # trafCalls =>
          (pc = "trafilatura" /\ i = 1 /\ trafCalls = 0 /\ trafCalls' = 1)]_vars
  /\ [][(pc = "diffbot" /\ i > 1) => pc' # "trafilatura"]_vars

\* the fallback gave page 1 and the primary provider was asked for later
\* pages, the last of which failed
C25_Witness ==
  /\ pc = "returned"
  /\ trafCalls = 1
  /\ i = 3
  /\ result.error = "SERVER_ERROR"
  /\ Len(accepted) = 2
  /\ accepted[1][3] = "trafilatura"

\* C26: detect_pagination returns MAX_PAGES = 5 URLs in page order: the base
\* URL, then for N = 2..5 the base URL followed by ?page=N&s=paging_new when
\* it contains tribunnews.com and by ?page=N otherwise.
C26_PageUrls ==
  /\ Len(detect_pagination(url)) = 5
  /\ detect_pagination(url)[1] = url
  /\ \A N \in 2..5 :
       detect_pagination(url)[N] =
         IF \E k \in 1..Len(url) : url[k] = "tribunnews.com"
           THEN url \o <<"?page=", <<"2", "3", "4", "5">>[N - 1], "&s=paging_new">>
           ELSE url \o <<"?page=", <<"2", "3", "4", "5">>[N - 1]>>

\* all five pages of an article of tribunnews.com were asked for and taken
C26_Witness ==
  /\ pc = "returned"
  /\ url = <<"https://", "www.", "tribunnews.com", "/a">>
  /\ i = MAX_PAGES
  /\ Len(accepted) = MAX_PAGES

\* C27: only FORBIDDEN_RETRY makes the primary provider be called again for
\* the same page; after any other result no further primary call is made for
\* that page, a RATE_LIMIT on page 1 leads directly to the fallback, and a
\* page answered FORBIDDEN_RETRY k <= 3 times and then with a good body is
\* accepted after exactly k + 1 primary calls, without a fallback call.
C27_OnlyForbiddenRetried ==
  /\ []((pc = "diffbot" /\ attempt > 0) =>
          (pageCalls = attempt /\ result.error = "FORBIDDEN_RETRY"))
  /\ [][PrimaryCalled =>
          /\ (pc' = "diffbot" /\ i' = i) <=> result'.error = "FORBIDDEN_RETRY"
          /\ result'.error = "FORBIDDEN_RETRY" => attempt' = attempt + 1
          /\ (result'.error = "RATE_LIMIT" /\ i = 1) => pc' = "trafilatura"
          /\ (result'.error = NONE /\ LongEnough(result'.content)
                /\ ~IsDuplicate(result'.content)) =>
               /\ accepted' = Append(accepted, <<i, result'.content, "diffbot">>)
               /\ pageCalls' = attempt + 1
               /\ attempt <= MAX_RETRIES
               /\ trafCalls' = trafCalls]_vars

\* page 1 was answered 403 three times and then with a good body
C27_Witness ==
  /\ i = 2
  /\ pc = "diffbot"
  /\ attempt = 0
  /\ diffbotCalls = MAX_RETRIES + 1
  /\ pageCalls = MAX_RETRIES + 1
  /\ retrySleeps = MAX_RETRIES
  /\ trafCalls = 0
  /\ accepted = << <<1, result.content, "diffbot">> >>

(***************************************************************************)
(* Further properties of the bounded-time extractor                        *)
(***************************************************************************)
\* C28: in the bounded-time extractor, when every provider call raises, the
\* provider has been called max_retries times when a result is returned.
C28_BoundedRetries ==
  (variant = "parse_self_content" /\ AllOutcomes("raise")
     /\ ex_pc \in {"done", "saved"}) =>
    providerCalls = max_retries

(***************************************************************************)
(* Properties of scrape_all_pages: delays, metadata, fallback              *)
(***************************************************************************)

\* the pages accepted so far that are not the last page of the plan
AcceptedBeforeLast == SelectSeq(accepted, LAMBDA a : a[1] < MAX_PAGES)

\* C31: DELAY_BETWEEN_PAGES is slept exactly once after each accepted page
\* that is not the last of the plan, and at no other point: one delay lies
\* between the fetches of consecutive pages, none follows the fifth page or
\* the page on which the loop breaks.
C31_InterPageDelay ==
  /\ [](/\ pageDelays = Len(AcceptedBeforeLast)
        /\ pc # "returned" => pageDelays = i - 1
        /\ pc = "returned" /\ stop # "no_more_pages" => pageDelays = Len(accepted))
  /\ [][pageDelays' =
          IF Len(accepted') = Len(accepted) + 1 /\ i < MAX_PAGES
            THEN pageDelays + 1
            ELSE pageDelays]_vars

\* all five pages accepted: four delays, none after the fifth page
C31_Witness ==
  /\ pc = "returned"
  /\ Len(accepted) = MAX_PAGES
  /\ pageDelays = MAX_PAGES - 1
  /\ stop = "no_more_pages"

\* title, author and date of a record or of a provider's result
Meta(d) == <<d.title, d.author, d.date>>

\* C32: title, author and date of the record are set only by the step that
\* accepts page 1, from the result of the provider that supplied page 1; no
\* other step, and no step on a later page, changes them.
C32_MetadataFromPageOne ==
  [][IF i = 1 /\ accepted = <<>> /\ accepted' # <<>>
       THEN IF accepted'[1][3] = "diffbot"
              THEN /\ pc = "diffbot"
                   /\ result'.content = accepted'[1][2]
                   /\ Meta(extracted_data') = Meta(result')
              ELSE /\ pc = "trafilatura"
                   /\ \E t \in TrafResponses :
                        /\ scrape_with_trafilatura(t).content = accepted'[1][2]
                        /\ Meta(extracted_data') = Meta(scrape_with_trafilatura(t))
       ELSE Meta(extracted_data') = Meta(extracted_data)]_vars

\* five pages accepted, the later ones carrying other metadata than page 1
C32_Witness ==
  /\ pc = "returned"
  /\ Len(accepted) = MAX_PAGES
  /\ accepted[1][2] = BodyX
  /\ accepted[2][2] = BodyY
  /\ accepted[MAX_PAGES][2] = BodyX
  /\ Meta(extracted_data) = <<"T", "A1", "D1">>

\* C33: scrape_all_pages returns None only after the fallback provider has
\* been called for page 1, whatever made the primary provider's page 1
\* unacceptable (an empty or too short body included).
C33_FallbackBeforeFailure ==
  (pc = "returned" /\ returned = "None") => trafCalls = 1

\* C34: the result the branches of scrape_all_pages act on is never the
\* retryable sub-kind: FORBIDDEN_RETRY is the result only inside the retry
\* loop, on a retry count below MAX_RETRIES, and a page whose MAX_RETRIES + 1
\* calls were all answered 403 is handled by the Forbidden branch.
C34_NoRetryKindAfterLoop ==
  /\ [](/\ result.error = "FORBIDDEN_RETRY" =>
             /\ pc = "diffbot"
             /\ attempt \in 1..MAX_RETRIES
             /\ pageCalls = attempt
        /\ (PageDone /\ onlyForbidden /\ pageCalls = MAX_RETRIES + 1) =>
             /\ result.error = "FORBIDDEN"
             /\ \/ pc = "trafilatura" /\ i = 1 /\ trafCalls = 0
                \/ /\ trafCalls = 1
                   /\ \/ pc = "returned" /\ i = 1 /\ stop = "fallback_failed"
                      \/ /\ pc = "diffbot" /\ i = 2
                         /\ accepted = << <<1, trafBody, "trafilatura">> >>
                \/ pc = "returned" /\ i > 1 /\ stop = "error")
  /\ [][(pc = "diffbot" /\ diffbotCalls' = diffbotCalls + 1) =>
          /\ (result'.error = "FORBIDDEN_RETRY") =
               (pc' = "diffbot" /\ i' = i /\ attempt' = attempt + 1)
          /\ attempt = MAX_RETRIES => result'.error # "FORBIDDEN_RETRY"]_vars

\* a 403 on each of the MAX_RETRIES + 1 calls for page 2: the Forbidden branch
\* stops the pagination
C34_Witness ==
  /\ pc = "returned"
  /\ i = 2
  /\ pageCalls = MAX_RETRIES + 1
  /\ onlyForbidden
  /\ result.error = "FORBIDDEN"
  /\ stop = "error"

\* C35: a fallback result accepted as page 1 is followed by the primary
\* provider on page 2 after one inter-page delay; pages 2..5 are always the
\* primary provider's and are accepted or refused by the same rules whoever
\* supplied page 1; the record's method is "trafilatura" exactly when page 1
\* came from the fallback provider.
C35_FallbackThenPrimary ==
  /\ [](/\ \A k \in 1..Len(accepted) :
             /\ accepted[k][1] = k
             /\ k > 1 => accepted[k][3] = "diffbot"
        /\ accepted # <<>> =>
             ((extracted_data.method = "trafilatura") = (accepted[1][3] = "trafilatura"))
        /\ accepted = <<>> => extracted_data.method = "diffbot")
  /\ [][/\ (pc = "trafilatura" /\ accepted' # <<>>) =>
             /\ pc' = "diffbot" /\ i' = 2 /\ attempt' = 0
             /\ pageDelays' = pageDelays + 1
             /\ returned' = "pending"
        /\ (pc = "diffbot" /\ i > 1 /\ diffbotCalls' = diffbotCalls + 1
              /\ result'.error # "FORBIDDEN_RETRY") =>
             IF result'.error # NONE
               THEN pc' = "returned" /\ stop' = "error" /\ accepted' = accepted
             ELSE IF ~LongEnough(result'.content)
               THEN pc' = "returned" /\ stop' = "empty" /\ accepted' = accepted
             ELSE IF result'.content = accepted[Len(accepted)][2]
               THEN pc' = "returned" /\ stop' = "duplicate" /\ accepted' = accepted
             ELSE accepted' = Append(accepted, <<i, result'.content, "diffbot">>)]_vars

\* page 1 from the fallback provider, pages 2..5 from the primary provider
C35_Witness ==
  /\ pc = "returned"
  /\ returned = "record"
  /\ Len(accepted) = MAX_PAGES
  /\ accepted[1][3] = "trafilatura"
  /\ accepted[MAX_PAGES][3] = "diffbot"
  /\ extracted_data.method = "trafilatura"
  /\ extracted_data.pages_scraped = MAX_PAGES

(***************************************************************************)
(* Termination of stage 1                                                  *)
(***************************************************************************)
\* the provider calls scrape_all_pages can still make: the rest of the retry
\* loop of page i, the retry loops of the pages after it, and the fallback
\* call while page 1 is not settled
Remaining ==
  CASE pc = "returned" -> 0
    [] pc = "trafilatura" -> (MAX_PAGES - 1) * (MAX_RETRIES + 1) + 1
    [] OTHER -> (MAX_PAGES - i) * (MAX_RETRIES + 1) + (MAX_RETRIES + 1 - attempt)
                  + (IF i = 1 /\ trafCalls = 0 THEN 1 ELSE 0)

\* the records batch_scrape has still to process
BatchRemaining == IF bs_pc = "loop" THEN Len(url_data_list) - Len(bs_results) ELSE 0

C37_BlankSpeakerNoMatch ==
  (ms_pc = "returned" /\ str_strip(ms_spoke_person) = <<>>) => ms_entry = NoMatch

(***************************************************************************)
(* The alarm of the bounded-time extractor                                 *)
(***************************************************************************)
\* C38: no SIGALRM timer is pending when the bounded-time extractor has
\* returned, whichever way it returned, nor between two iterations of its
\* loop: the alarm of one article cannot go off during a later one.
C38_NoPendingAlarm ==
  variant = "parse_self_content" => ~alarm_armed

\* a result returned by the second call, the alarm of the first call having
\* gone off late
C38_Witness ==
  /\ variant = "parse_self_content"
  /\ ex_pc = "done"
  /\ providerCalls = 2
  /\ outcomes = <<"late_alarm", "text">>
  /\ ~alarm_armed

(***************************************************************************)
(* Articles without content                                                *)
(***************************************************************************)
\* the article a result was recorded for: the ids of a batch are 1, 2, ...
ArticleOf(res) == articles[res.id]

\* C39: for an article whose content is empty or blank, batch_parse does not
\* call extract_info_with_ai, records a result with no quotes, no speakers
\* and null province and city, and counts the article like any other: one
\* result, one more completed item, the checkpoint when it is the hundredth.
\* The same in parse_self_content: no provider call, the empty result, and
\* one row written.
C39_NoContentSkipped ==
  /\ [](/\ \A k \in 1..Len(results) :
             NoContent(ArticleOf(results[k]).content) =>
               results[k] = NewsResult(ArticleOf(results[k]), _empty_result)
        /\ bp_pc \in {"returned", "saved"} =>
             /\ Len(results) = Len(articles)
             /\ extract_calls =
                  Cardinality({k \in 1..Len(articles) : ~NoContent(articles[k].content)})
        /\ (NoContent(ex_content) /\ ex_pc \in {"done", "saved"}) =>
             providerCalls = 0 /\ ex_result = _empty_result /\ sleeps = <<>>
        /\ (NoContent(ex_content) /\ ex_pc = "saved") =>
             rows = << Row(ARTICLE, <<>>, <<>>, <<>>, <<>>, NoMatch) >>)
  /\ [][(bp_pc \in {"loop", "pool", "locked"} /\ parseVars' # parseVars) =>
          (NoContent(Yielded.content) =>
             /\ extract_calls' = extract_calls
             /\ bp_pc' # "crashed"
             /\ bp_i' # bp_i =>
                  /\ results' = Append(results, NewsResult(Yielded, _empty_result))
                  /\ threads > 1 => completed' = completed + 1
                  /\ checkpoints' =
                       Checkpointed(IF threads > 1 THEN completed + 1 ELSE bp_i + 1, results'))]_vars

\* a batch of CHECKPOINT_EVERY articles whose last one has no content has
\* returned with a checkpoint taken at it, and parse_self_content has written
\* the row of its article
C39_Witness ==
  /\ bp_pc = "returned"
  /\ Len(articles) = CHECKPOINT_EVERY
  /\ NoContent(articles[CHECKPOINT_EVERY].content)
  /\ results[CHECKPOINT_EVERY].id = CHECKPOINT_EVERY
  /\ Len(checkpoints) = 1
  /\ extract_calls = CHECKPOINT_EVERY - 1
  /\ ex_pc = "saved"

(***************************************************************************)
(* The output feed of stage 1                                              *)
(***************************************************************************)
\* the number of successful results among the first k
Successes(k) == Cardinality({j \in 1..k : bs_results[j].success})

\* C40: the feed stage 1 writes has one row for every result with success =
\* true, in the order of the results, with the id, date, URL and content of
\* that result, and no other row: a URL whose scrape failed is not in the
\* feed.
C40_FeedOfSuccesses ==
  bs_pc = "saved" =>
    /\ Len(feed) = Successes(Len(bs_results))
    /\ \A k \in 1..Len(bs_results) :
         bs_results[k].success =>
           feed[Successes(k)] =
             [id |-> bs_results[k].id, date_article |-> bs_results[k].date_article,
              source |-> bs_results[k].url, content |-> bs_results[k].content]
    /\ \A k \in 1..Len(bs_results) :
         ~bs_results[k].success =>
           \A j \in 1..Len(feed) : feed[j].id # bs_results[k].id

\* the feed of a long batch whose first scrape failed
C40_Witness ==
  /\ bs_pc = "saved"
  /\ Len(bs_results) = LongBatch
  /\ ~bs_results[1].success
  /\ Len(feed) = LongBatch - 1
  /\ feed[1].id = bs_results[2].id

=========================================================================
